---- MODULE Spec2Model ----
(***************************************************************************)
(* A model of the Mus tree-walking interpreter (src/mus/core).             *)
(*                                                                         *)
(* The interpreter's heap (environments, functions, classes, instances,    *)
(* arrays) is kept in arenas addressed by position; 0 is Python's None     *)
(* where a reference is optional.  evaluate/execute are big-step recursive *)
(* operators over the AST, passing the interpreter state along; a Python   *)
(* exception (ReturnValue included) is the `exc' field of their result.    *)
(* One action is one call of Interpreter.interpret on a statement list,    *)
(* as Mus.run does for a file or for a line of the REPL.                   *)
(***************************************************************************)
EXTENDS Integers, Sequences, FiniteSets, TLC

VARIABLES
    envs,          \* arena of Environment (types.py:69-75); envs[1] is Interpreter.globals
    funcs,         \* arena of MusFunction (types.py:134-141)
    classes,       \* arena of MusClass (types.py:156-163)
    objects,       \* arena of MusObject (types.py:198-203)
    arrays,        \* arena of MusArray (types.py:40-44)
    environment,   \* Interpreter.environment: the current environment
    locals,        \* Interpreter.locals: resolved scope distances, by variable name
    printed,       \* what the last interpret call wrote to standard output
    result,        \* how the last interpret call ended
    trace,         \* history of the last interpret call (lookups, calls, statements)
    steps,         \* number of interpret calls made so far
    mus,           \* the Mus object of the process and the run of its file (__init__.py)
    heap,          \* where the process allocates: the address id() gives is relative to it
    again,         \* the same program run once more, in another new process
    legacy         \* the line interpreter of run_mus.py (src/mus/interpreter.py)

vars == <<envs, funcs, classes, objects, arrays, environment, locals, printed, result, trace, steps,
          mus, heap, again, legacy>>

(***************************************************************************)
(* Bounds of the model.                                                    *)
(***************************************************************************)
\* interpret calls in one behaviour
MaxSteps == 3
\* iterations of one `while' statement the model follows
MaxLoop == 2
\* elements of an array of the line interpreter
MaxLength == 3

(***************************************************************************)
(* Values.  Python's None is Null.  A bool is kept apart from an int, with *)
(* n its integer value, since isinstance(True, int) holds in Python.       *)
(***************************************************************************)
Val(k, n, d, s) == [k |-> k, n |-> n, d |-> d, s |-> s]
Null == Val("null", 0, 1, "")
IntV(i) == Val("int", i, 1, "")
StrV(t) == Val("str", 0, 1, t)
BoolV(b) == Val("bool", IF b THEN 1 ELSE 0, 1, "")
\* a float, as the fraction n/d in lowest terms with d > 0
FloatV(n, d) == Val("float", n, d, "")
FunV(id) == Val("fun", id, 1, "")
ClassV(id) == Val("class", id, 1, "")
ObjV(id) == Val("obj", id, 1, "")
ArrV(id) == Val("arr", id, 1, "")
\* the Python list of element expressions an array literal evaluates to
ListV(label, len) == Val("list", len, 1, label)
\* an Expression object used as a value (an element of such a list)
ExprV(label, i) == Val("expr", i, 1, label)

EmptyMap == [x \in {} |-> Null]
Put(m, key, v) == [x \in DOMAIN m \cup {key} |-> IF x = key THEN v ELSE m[x]]

(***************************************************************************)
(* AST nodes (parser.py:20-171), one record shape for all of them:         *)
(* t the node class, name/aux its strings, val a Literal's value, params a *)
(* FunctionDeclaration's parameters, kids its sub-nodes.                   *)
(***************************************************************************)
Node(t, name, aux, val, params, kids) ==
    [t |-> t, name |-> name, aux |-> aux, val |-> val, params |-> params, kids |-> kids]
Literal(v) == Node("Literal", "", "", v, <<>>, <<>>)
Variable(name) == Node("Variable", name, "", Null, <<>>, <<>>)
This == Node("This", "", "", Null, <<>>, <<>>)
Super(method) == Node("Super", method, "", Null, <<>>, <<>>)
Binary(left, op, right) == Node("Binary", op, "", Null, <<>>, <<left, right>>)
Unary(op, right) == Node("Unary", op, "", Null, <<>>, <<right>>)
Call(callee, arguments) == Node("Call", "", "", Null, <<>>, <<callee>> \o arguments)
Get(object, name) == Node("Get", name, "", Null, <<>>, <<object>>)
Set(object, name, value) == Node("Set", name, "", Null, <<>>, <<object, value>>)
\* str(index) of an Expression: the repr of the dataclass, which starts with
\* the name of the node class
repr_expression(e) == e.t \o "(...)"
\* `object[index]' as Parser.call builds it: Get(expr, str(index), token).
\* The node keeps the index expression beside it (aux "[]", second kid), for
\* the history only: the Get of the code holds nothing but the string.
GetIndex(object, index) ==
    Node("Get", repr_expression(index), "[]", Null, <<>>, <<object, index>>)
ExpressionStmt(e) == Node("ExpressionStmt", "", "", Null, <<>>, <<e>>)
\* initializer: <<>> for none, <<e>> otherwise
VarDeclaration(name, type_name, initializer) ==
    Node("VarDeclaration", name, type_name, Null, <<>>, initializer)
FunctionDeclaration(name, params, body) == Node("FunctionDeclaration", name, "", Null, params, body)
\* members: the VarDeclaration (field) and FunctionDeclaration (method) nodes
ClassDeclaration(name, superclass, members) ==
    Node("ClassDeclaration", name, superclass, Null, <<>>, members)
Block(statements) == Node("Block", "", "", Null, <<>>, statements)
\* else_branch: <<>> for none, <<s>> otherwise
If(condition, then_branch, else_branch) ==
    Node("If", "", "", Null, <<>>, <<condition, then_branch>> \o else_branch)
While(condition, body) == Node("While", "", "", Null, <<>>, <<condition, body>>)
For(iterator, iterable, body) == Node("For", iterator, "", Null, <<>>, <<iterable, body>>)
\* value: <<>> for none, <<e>> otherwise
Return(value) == Node("Return", "", "", Null, <<>>, value)

(***************************************************************************)
(* Heap records.                                                           *)
(***************************************************************************)
\* Environment(parent): no variables, functions or classes
NewEnvironment(parent) ==
    [parent |-> parent, variables |-> EmptyMap, functions |-> EmptyMap, classes |-> EmptyMap]
\* MusFunction(name, params, body, closure): native_fn defaults to None ("")
MusFunction(name, params, body, closure) ==
    [name |-> name, params |-> params, body |-> body, closure |-> closure, native_fn |-> ""]
MusClass(name, fields, methods, parent, env) ==
    [name |-> name, fields |-> fields, methods |-> methods, parent |-> parent, environment |-> env]
\* MusObject(class_def): no fields, no environment
MusObject(class_def) == [class_def |-> class_def, fields |-> EmptyMap, environment |-> 0]
MusArray(elements, element_type) == [elements |-> elements, element_type |-> element_type]

(***************************************************************************)
(* Environment (types.py:69-132), on the arena `es'.                       *)
(***************************************************************************)
define_variable(es, e, name, type_name, value) ==
    [es EXCEPT ![e].variables = Put(@, name, [type |-> type_name, value |-> value])]

RECURSIVE get_variable(_, _, _)
get_variable(es, e, name) ==
    IF name \in DOMAIN es[e].variables THEN es[e].variables[name].value
    ELSE IF es[e].parent # 0 THEN get_variable(es, es[e].parent, name)
    ELSE Null

\* the environment of the chain from e that binds name, 0 when none does
RECURSIVE binding_env(_, _, _)
binding_env(es, e, name) ==
    IF name \in DOMAIN es[e].variables THEN e
    ELSE IF es[e].parent # 0 THEN binding_env(es, es[e].parent, name)
    ELSE 0

\* set_variable: [ok, es]; ok is FALSE where the code raises NameError
set_variable(es, e, name, value) ==
    LET b == binding_env(es, e, name)
    IN  IF b # 0
        THEN [ok |-> TRUE, es |-> [es EXCEPT ![b].variables[name].value = value]]
        ELSE [ok |-> FALSE, es |-> es]

\* the environment `distance' parents up from e, 0 when the chain is shorter
RECURSIVE ancestor(_, _, _)
ancestor(es, e, distance) ==
    IF distance = 0 THEN e
    ELSE IF es[e].parent = 0 THEN 0
    ELSE ancestor(es, es[e].parent, distance - 1)

RECURSIVE get_function(_, _, _)
get_function(es, e, name) ==
    IF name \in DOMAIN es[e].functions THEN es[e].functions[name]
    ELSE IF es[e].parent # 0 THEN get_function(es, es[e].parent, name)
    ELSE 0

RECURSIVE get_class(_, _, _)
get_class(es, e, name) ==
    IF name \in DOMAIN es[e].classes THEN es[e].classes[name]
    ELSE IF es[e].parent # 0 THEN get_class(es, es[e].parent, name)
    ELSE 0

(***************************************************************************)
(* The interpreter state `st' threaded through evaluation: the arenas, the *)
(* current environment, the output and the history of this interpret call. *)
(* A result is [st, exc, msg, val]: exc is "" for a normal completion and  *)
(* otherwise the class of the Python exception in flight ("ReturnValue"    *)
(* for the return signal, whose value is val); msg tells the raise sites   *)
(* apart.                                                                  *)
(***************************************************************************)
Ok(st, v) == [st |-> st, exc |-> "", msg |-> "", val |-> v]
Raise(st, exc, msg) == [st |-> st, exc |-> exc, msg |-> msg, val |-> Null]

\* one entry of the history: what happened (ev), to which name, in which
\* environment, with which values and heap references
Event(ev, name, env, val, near, a, b) ==
    [ev |-> ev, name |-> name, env |-> env, val |-> val, near |-> near, a |-> a, b |-> b,
     exc |-> "", arg |-> Null]
\* the entry for an operation that ended with exception exc ("" for none)
Outcome(event, exc, arg) == [event EXCEPT !.exc = exc, !.arg = arg]
Log(st, event) == [st EXCEPT !.trace = Append(@, event)]

(***************************************************************************)
(* MusFunction.bind, MusClass, MusObject (types.py:147-235).               *)
(***************************************************************************)
RECURSIVE get_method(_, _, _)
get_method(cs, c, name) ==
    IF name \in DOMAIN cs[c].methods THEN cs[c].methods[name]
    ELSE IF cs[c].parent # 0 THEN get_method(cs, cs[c].parent, name)
    ELSE 0

\* f.bind(instance): a new environment under f's closure holding `this' (and
\* `super'), and a new function over it; [st, fn]
\* bind that defines `this' in the method's own closure and hands out a
\* function over that closure
bind_into_closure(st, f, o) ==
    LET cls == st.classes[st.objects[o].class_def]
        e == IF st.funcs[f].closure # 0 THEN st.funcs[f].closure ELSE 1
        es2 == define_variable(st.envs, e, "this", cls.name, ObjV(o))
        bound_function == MusFunction(st.funcs[f].name, st.funcs[f].params, st.funcs[f].body, e)
    IN  [st |-> [st EXCEPT !.envs = es2, !.funcs = Append(@, bound_function)],
         fn |-> Len(st.funcs) + 1]

bind(st, f, o) ==
    LET e == Len(st.envs) + 1
        cls == st.classes[st.objects[o].class_def]
        es1 == Append(st.envs, NewEnvironment(st.funcs[f].closure))
        es2 == define_variable(es1, e, "this", cls.name, ObjV(o))
        es3 == IF cls.parent # 0
               THEN define_variable(es2, e, "super", st.classes[cls.parent].name, ClassV(cls.parent))
               ELSE es2
        bound_function == MusFunction(st.funcs[f].name, st.funcs[f].params, st.funcs[f].body, e)
    IN  [st |-> [st EXCEPT !.envs = es3, !.funcs = Append(@, bound_function)],
         fn |-> Len(st.funcs) + 1]

\* the default values of the class's own fields, keyed by field name
field_defaults(cls) == [name \in DOMAIN cls.fields |-> cls.fields[name].value]

\* c.create_instance(interpreter): [st, obj]
create_instance(st, c) ==
    LET cls == st.classes[c]
        o == Len(st.objects) + 1
        e == Len(st.envs) + 1
        es1 == Append(st.envs, NewEnvironment(cls.environment))
        es2 == define_variable(es1, e, "this", cls.name, ObjV(o))
        es3 == IF cls.parent # 0
               THEN define_variable(es2, e, "super", st.classes[cls.parent].name, ClassV(cls.parent))
               ELSE es2
        instance == [class_def |-> c, fields |-> field_defaults(cls), environment |-> e]
        st1 == [st EXCEPT !.objects = Append(@, instance), !.envs = es3]
        init_method == get_method(st.classes, c, "init")
        b == bind(st1, init_method, o)
    IN  IF init_method # 0
        THEN [st |-> [b.st EXCEPT !.objects[o].fields = Put(@, "init", FunV(b.fn))], obj |-> o]
        ELSE [st |-> st1, obj |-> o]

\* get_field on a MusObject(parent) made on the spot (no fields): the id of
\* the method found, 0 where the code ends in NameError
RECURSIVE parent_obj_get_field(_, _, _)
parent_obj_get_field(cs, c, name) ==
    IF get_method(cs, c, name) # 0 THEN get_method(cs, c, name)
    ELSE IF cs[c].parent # 0 THEN parent_obj_get_field(cs, cs[c].parent, name)
    ELSE 0

\* get_field looking for a method before the fields
get_field_method_first(st, o, name) ==
    LET obj == st.objects[o]
        method == get_method(st.classes, obj.class_def, name)
        b == bind(st, method, o)
    IN  IF method # 0 THEN Ok(b.st, FunV(b.fn))
        ELSE IF name \in DOMAIN obj.fields THEN Ok(st, obj.fields[name])
        ELSE Raise(st, "NameError", "field not found")

\* o.get_field(name): a result
get_field(st, o, name) ==
    LET obj == st.objects[o]
        cls == st.classes[obj.class_def]
        method == get_method(st.classes, obj.class_def, name)
        b == bind(st, method, o)
        up == parent_obj_get_field(st.classes, cls.parent, name)
        \* a method found from parent_obj is bound to parent_obj, which then
        \* stays alive in the bound function's closure
        po == Len(st.objects) + 1
        pb == bind([st EXCEPT !.objects = Append(@, MusObject(cls.parent))], up, po)
    IN  IF name \in DOMAIN obj.fields THEN Ok(st, obj.fields[name])
        ELSE IF method # 0 THEN Ok(b.st, FunV(b.fn))
        ELSE IF cls.parent # 0
             THEN IF up # 0 THEN Ok(pb.st, FunV(pb.fn))
                  ELSE Raise(st, "NameError", "field not found")
        ELSE Raise(st, "NameError", "field not found")

\* set_field on a MusObject(parent) made on the spot: TRUE when it returns,
\* FALSE where it raises NameError
RECURSIVE parent_obj_set_field(_, _, _)
parent_obj_set_field(cs, c, name) ==
    IF name \in DOMAIN cs[c].fields THEN TRUE
    ELSE IF cs[c].parent # 0 THEN parent_obj_set_field(cs, cs[c].parent, name)
    ELSE FALSE

\* o.set_field(name, value): a result
set_field(st, o, name, value) ==
    LET obj == st.objects[o]
        cls == st.classes[obj.class_def]
        type_name == IF name \in DOMAIN cls.fields THEN cls.fields[name].type ELSE ""
        st1 == [st EXCEPT !.objects[o].fields = Put(@, name, value)]
    IN  IF name \in DOMAIN cls.fields \/ name \in DOMAIN obj.fields
        THEN IF obj.environment # 0
             THEN Ok([st1 EXCEPT !.envs = define_variable(@, obj.environment, name, type_name, value)],
                     Null)
             ELSE Ok(st1, Null)
        ELSE IF cls.parent # 0
             THEN IF parent_obj_set_field(st.classes, cls.parent, name)
                  THEN Ok(st1, Null)
                  ELSE Raise(st, "NameError", "field not found")
        ELSE Raise(st, "NameError", "field not found")

(***************************************************************************)
(* Numbers and Python's str().                                             *)
(***************************************************************************)
\* isinstance(v, (int, float)): a bool is an int
is_number(v) == v.k \in {"int", "bool", "float"}

Abs(i) == IF i < 0 THEN -i ELSE i
RECURSIVE Gcd(_, _)
Gcd(a, b) == IF b = 0 THEN a ELSE Gcd(b, a % b)

\* the number n/d as a value: a float when is_float, else the int n
Number(n, d, is_float) ==
    LET sgn == IF d < 0 THEN -1 ELSE 1
        g == Gcd(Abs(n), Abs(d))
    IN  IF is_float THEN FloatV((sgn * n) \div g, (sgn * d) \div g) ELSE IntV(n)

either_float(a, b) == a.k = "float" \/ b.k = "float"
num_add(a, b) == Number(a.n * b.d + b.n * a.d, a.d * b.d, either_float(a, b))
num_sub(a, b) == Number(a.n * b.d - b.n * a.d, a.d * b.d, either_float(a, b))
num_mul(a, b) == Number(a.n * b.n, a.d * b.d, either_float(a, b))
\* Python's / is true division: the result is a float also for two ints
num_div(a, b) == Number(a.n * b.d, a.d * b.n, TRUE)
\* Python's %: the result has the sign of the divisor
num_mod(a, b) ==
    LET x == a.n * b.d
        y == b.n * a.d
        r == IF y > 0 THEN x % y ELSE -((-x) % (-y))
    IN  Number(r, a.d * b.d, either_float(a, b))
num_less(a, b) == a.n * b.d < b.n * a.d
num_equal(a, b) == a.n * b.d = b.n * a.d

\* the places a process may find its heap at
HeapBases == {0, 1}

\* id(o) of the instance objects[n]: its address
id(st, n) == st.heap + n

RECURSIVE str(_, _)

\* ', '.join_elements(str(e) for e in elements)
RECURSIVE join_elements(_, _)
join_elements(st, elements) ==
    IF elements = <<>> THEN ""
    ELSE IF Len(elements) = 1 THEN str(st, elements[1])
    ELSE str(st, elements[1]) \o ", " \o join_elements(st, Tail(elements))

\* str(v)
str(st, v) ==
    CASE v.k = "int" -> ToString(v.n)
      [] v.k = "bool" -> IF v.n = 1 THEN "True" ELSE "False"
      [] v.k = "null" -> "None"
      [] v.k = "str" -> v.s
      [] v.k = "float" -> IF v.d = 1 THEN ToString(v.n) \o ".0"
                          ELSE ToString(v.n) \o "/" \o ToString(v.d)
      [] v.k = "fun" -> "fun " \o st.funcs[v.n].name
      [] v.k = "class" -> "class " \o st.classes[v.n].name
      \* MusObject.__str__: the class name and id(self)
      [] v.k = "obj" -> st.classes[st.objects[v.n].class_def].name \o "@" \o ToString(id(st, v.n))
      \* MusArray.__str__
      [] v.k = "arr" -> "[" \o join_elements(st, st.arrays[v.n].elements) \o "]"
      [] OTHER -> "[" \o v.s \o "]"

\* int(name) of Get/Set on an array: [ok, n]; ok is FALSE for ValueError
int_of(name) ==
    CASE name = "0" -> [ok |-> TRUE, n |-> 0]
      [] name = "1" -> [ok |-> TRUE, n |-> 1]
      [] name = "2" -> [ok |-> TRUE, n |-> 2]
      [] name = "3" -> [ok |-> TRUE, n |-> 3]
      [] name = "-1" -> [ok |-> TRUE, n |-> -1]
      [] OTHER -> [ok |-> FALSE, n |-> 0]

\* the array types of VarDeclaration: type_name[6:-1] where type_name starts
\* with "array<" and ends with ">", "" otherwise
element_type_of(type_name) ==
    CASE type_name = "array<integer>" -> "integer"
      [] type_name = "array<string>" -> "string"
      [] type_name = "array<any>" -> "any"
      [] OTHER -> ""

(***************************************************************************)
(* Interpreter helpers (interpreter.py:322-357).                           *)
(***************************************************************************)
is_truthy(v) ==
    IF v.k = "null" THEN FALSE
    ELSE IF v.k = "bool" THEN v.n = 1
    ELSE TRUE

\* a == b of Python on two values that are not None
py_equal(st, a, b) ==
    IF is_number(a) /\ is_number(b) THEN num_equal(a, b)
    ELSE IF a.k # b.k THEN FALSE
    ELSE IF a.k = "str" THEN a.s = b.s
    ELSE IF a.k = "arr" THEN st.arrays[a.n] = st.arrays[b.n]
    ELSE IF a.k = "fun" THEN st.funcs[a.n] = st.funcs[b.n]
    ELSE IF a.k = "class" THEN st.classes[a.n] = st.classes[b.n]
    ELSE IF a.k = "obj" THEN a.n = b.n
    ELSE a = b

is_equal(st, a, b) ==
    IF a.k = "null" /\ b.k = "null" THEN TRUE
    ELSE IF a.k = "null" THEN FALSE
    ELSE IF b.k = "null" THEN FALSE
    ELSE py_equal(st, a, b)

\* self.locals.get(expr): the resolved distance of the expression, -1 for None
locals_get(st, key) == IF key \in DOMAIN st.locals THEN st.locals[key] ELSE -1

\* lookup_variable(name, expr): a result; the lookup is entered in the
\* history with the binding the scope chain of the current environment holds
\* and with the environment that was read
lookup_variable(st, name) ==
    LET distance == locals_get(st, name)
        target == ancestor(st.envs, st.environment, distance)
        found == IF binding_env(st.envs, st.environment, name) # 0 THEN 1 ELSE 0
        near == get_variable(st.envs, st.environment, name)
        value == IF distance # -1 THEN get_variable(st.envs, target, name)
                 ELSE get_variable(st.envs, 1, name)
    IN  IF distance # -1 /\ target = 0
        THEN Raise(st, "RuntimeError", "Invalid scope distance")
        ELSE Ok(Log(st, Event("lookup", name, st.environment, value, near, found,
                              IF distance # -1 THEN target ELSE 1)), value)

\* hasattr(callee_val, 'native_fn'): native_fn is a field of the MusFunction
\* dataclass, so every MusFunction has the attribute
hasattr_native_fn(fn) == TRUE

\* callee_val.native_fn(args): a result
native_call(st, f, args) ==
    LET fn == st.funcs[f]
        st1 == Log(st, Event("native", fn.name, st.environment, Null, Null, f, Len(args)))
    IN  CASE fn.native_fn = "" -> Raise(st1, "TypeError", "'NoneType' object is not callable")
          [] fn.native_fn = "out" ->
                IF Len(args) # 1 THEN Raise(st1, "RuntimeError", "expects exactly one argument")
                ELSE Ok([st1 EXCEPT !.printed = Append(@, str(st1, args[1]))], Null)
          [] fn.native_fn = "length" ->
                IF Len(args) # 1 THEN Raise(st1, "RuntimeError", "expects exactly one argument")
                ELSE IF args[1].k # "arr" THEN Raise(st1, "RuntimeError", "expects an array argument")
                ELSE Ok(st1, IntV(Len(st1.arrays[args[1].n].elements)))

\* for (param_name, param_type), arg_value in zip(params, args): define_variable
RECURSIVE bind_parameters(_, _, _, _)
bind_parameters(es, e, params, args) ==
    IF params = <<>> \/ args = <<>> THEN es
    ELSE bind_parameters(define_variable(es, e, params[1][1], params[1][2], args[1]),
                         e, Tail(params), Tail(args))

(***************************************************************************)
(* Interpreter.evaluate, execute and execute_block (interpreter.py:74-320).*)
(***************************************************************************)
\* `r = <call>; <rest using r>': the call is made once and the rest of the
\* handler works on its result
With(v, F(_)) == CHOOSE x \in {F(r) : r \in {v}} : TRUE

\* the same where a Python exception raised by the call leaves the handler
Then(v, F(_)) == CHOOSE x \in {IF r.exc # "" THEN r ELSE F(r) : r \in {v}} : TRUE

RECURSIVE evaluate(_, _), evaluate_arguments(_, _), execute(_, _), execute_statements(_, _),
          execute_block(_, _, _), execute_while(_, _, _), execute_for(_, _, _),
          class_fields(_, _, _)

\* the binary operators on two evaluated operands
\* a division or modulo that yields a result instead of raising
division_by_zero_silent(st, op) == Ok(st, IntV(0))

\* `if right_val == 0: raise InterpreterError("Division by zero", token)',
\* "Modulo by zero" for MODULO
division_by_zero(st, op) ==
    Raise(st, "InterpreterError", IF op = "DIVIDE" THEN "Division by zero" ELSE "Modulo by zero")

evaluate_binary(st, op, l, r) ==
    LET numbers == is_number(l) /\ is_number(r)
        not_numbers == Raise(st, "InterpreterError", "Operands must be numbers")
    IN  CASE op = "PLUS" ->
                IF numbers THEN Ok(st, num_add(l, r))
                ELSE IF l.k = "str" \/ r.k = "str" THEN Ok(st, StrV(str(st, l) \o str(st, r)))
                ELSE Raise(st, "InterpreterError", "Operands must be numbers or strings")
          [] op = "MINUS" -> IF numbers THEN Ok(st, num_sub(l, r)) ELSE not_numbers
          [] op = "MULTIPLY" -> IF numbers THEN Ok(st, num_mul(l, r)) ELSE not_numbers
          [] op = "DIVIDE" ->
                IF ~numbers THEN not_numbers
                ELSE IF r.n = 0 THEN division_by_zero(st, op)
                ELSE Ok(st, num_div(l, r))
          [] op = "MODULO" ->
                IF ~numbers THEN not_numbers
                ELSE IF r.n = 0 THEN division_by_zero(st, op)
                ELSE Ok(st, num_mod(l, r))
          [] op = "GREATER" -> IF numbers THEN Ok(st, BoolV(num_less(r, l))) ELSE not_numbers
          [] op = "GREATER_EQUAL" -> IF numbers THEN Ok(st, BoolV(~num_less(l, r))) ELSE not_numbers
          [] op = "LESS" -> IF numbers THEN Ok(st, BoolV(num_less(l, r))) ELSE not_numbers
          [] op = "LESS_EQUAL" -> IF numbers THEN Ok(st, BoolV(~num_less(r, l))) ELSE not_numbers
          [] op = "EQUALS" -> Ok(st, BoolV(is_equal(st, l, r)))
          [] op = "NOT_EQUALS" -> Ok(st, BoolV(~is_equal(st, l, r)))
          [] OTHER -> Raise(st, "InterpreterError", "Unknown operator")

\* history: the binary operator op on the operand values l (near) and r
\* (arg) has ended as `got'
binary_seen(op, l, r, got) ==
    [got EXCEPT !.st = Log(@, Outcome(Event("binary", op, got.st.environment, got.val, l, 0, 0),
                                      got.exc, r))]

\* the unary operators on the evaluated operand
evaluate_unary(st, op, right_val) ==
    IF op = "MINUS"
    THEN IF is_number(right_val) THEN Ok(st, num_sub(IntV(0), right_val))
         ELSE Raise(st, "InterpreterError", "Operand must be a number")
    ELSE IF op = "NOT" THEN Ok(st, BoolV(~is_truthy(right_val)))
    ELSE Raise(st, "InterpreterError", "Unknown operator")

\* the Super case, once self.locals holds a distance for the expression
evaluate_super(st, method) ==
    LET super_val == get_variable(st.envs, st.environment, "super")
        \* get_class(name): `name in self.classes' hashes the name, and a
        \* MusClass (a dataclass with eq and without frozen) is unhashable
        superclass == IF super_val.k = "str" THEN get_class(st.envs, st.environment, super_val.s) ELSE 0
        method_func == get_method(st.classes, superclass, method)
    IN  IF super_val.k \in {"class", "obj", "fun", "arr", "list"}
        THEN Raise(st, "TypeError", "unhashable type")
        ELSE IF superclass = 0 THEN Raise(st, "InterpreterError", "Superclass not found")
        ELSE IF method_func = 0 THEN Raise(st, "InterpreterError", "Method not found in superclass")
        ELSE Ok(st, FunV(method_func))

\* env = Environment(closure or globals) with the parameters bound to the
\* arguments, ready for execute_block on the body of f: the state with the
\* new environment as envs[Len(st.envs) + 1].  The history gets the
\* activation: the function, the instance it is bound to (this_val), the
\* number of arguments and the number of bindings made.
activate(st, f, args, this_val) ==
    LET fn == st.funcs[f]
        e == Len(st.envs) + 1
        es == bind_parameters(Append(st.envs, NewEnvironment(IF fn.closure # 0 THEN fn.closure ELSE 1)),
                              e, fn.params, args)
    IN  Log([st EXCEPT !.envs = es, !.frame = f],
            Event("activate", fn.name, e, this_val, IntV(Len(args)), f,
                  Cardinality(DOMAIN es[e].variables)))

\* the MusFunction branch of Call, the arguments evaluated
call_function(st, f, args) ==
    IF hasattr_native_fn(st.funcs[f]) THEN native_call(st, f, args)
    ELSE With(execute_block(st.funcs[f].body, Len(st.envs) + 1, activate(st, f, args, Null)),
              LAMBDA body :
                  IF body.exc = "" THEN Ok([body.st EXCEPT !.frame = st.frame], Null)
                  ELSE IF body.exc = "ReturnValue" THEN Ok([body.st EXCEPT !.frame = st.frame], body.val)
                  ELSE [body EXCEPT !.st.frame = st.frame])

\* history: the Call on class c has returned instance o
returned_instance(st, c, o) ==
    Log(st, Event("new", st.classes[c].name, st.environment, ObjV(o), Null, c,
                  get_method(st.classes, c, "init")))

\* the constructor part of the MusClass branch: init_method bound to the
\* instance, the arguments evaluated, the body executed in a new environment
call_init(st, c, o, arguments) ==
    With(bind(st, get_method(st.classes, c, "init"), o), LAMBDA bound :
    With(evaluate_arguments(arguments, bound.st), LAMBDA args :
        IF args.exc # "" THEN Raise(args.st, args.exc, args.msg)
        ELSE With(execute_block(args.st.funcs[bound.fn].body, Len(args.st.envs) + 1,
                                \* bound_init.native_fn = None
                                activate([args.st EXCEPT !.funcs[bound.fn].native_fn = ""],
                                         bound.fn, args.vals, ObjV(o))),
                  LAMBDA body :
                      IF body.exc \in {"", "ReturnValue"}
                      THEN Ok(returned_instance([body.st EXCEPT !.frame = st.frame], c, o), ObjV(o))
                      ELSE [body EXCEPT !.st.frame = st.frame])))

\* the MusClass branch of Call
call_class(st, c, arguments) ==
    With(create_instance(st, c), LAMBDA made :
        IF get_method(st.classes, c, "init") = 0
        THEN Ok(returned_instance(made.st, c, made.obj), ObjV(made.obj))
        ELSE call_init(made.st, c, made.obj, arguments))

\* [self.evaluate(arg) for arg in arguments]: a result with the values in vals
evaluate_arguments(arguments, st) ==
    IF arguments = <<>> THEN [st |-> st, exc |-> "", msg |-> "", val |-> Null, vals |-> <<>>]
    ELSE With(evaluate(arguments[1], st), LAMBDA first :
             IF first.exc # ""
             THEN [st |-> first.st, exc |-> first.exc, msg |-> first.msg, val |-> first.val, vals |-> <<>>]
             ELSE With(evaluate_arguments(Tail(arguments), first.st), LAMBDA rest :
                      [rest EXCEPT !.vals = <<first.val>> \o @]))

\* history: what the name of a Call's callee denotes in the function and
\* class namespaces of the scope chain, next to the value it evaluated to
callee_seen(st, callee, callee_val) ==
    IF callee.t = "Variable"
    THEN Log(st, Event("callee", callee.name, st.environment, callee_val, Null,
                       get_function(st.envs, st.environment, callee.name),
                       get_class(st.envs, st.environment, callee.name)))
    ELSE st

st_name(st, f) == st.funcs[f].name

\* history: the call of function f on the arguments args has ended as `called'
function_called(called, f, args) ==
    [called EXCEPT !.st = Log(@, Outcome(Event("called", st_name(@, f), @.environment, called.val,
                                               IF args # <<>> THEN args[1] ELSE Null, f, Len(args)),
                                         called.exc, Null))]

\* the Call case, the callee evaluated
evaluate_call(st, callee_val, arguments) ==
    IF callee_val.k = "fun"
    THEN With(evaluate_arguments(arguments, st), LAMBDA args :
             IF args.exc # "" THEN Raise(args.st, args.exc, args.msg)
             ELSE With(call_function(args.st, callee_val.n, args.vals), LAMBDA called :
                      function_called(called, callee_val.n, args.vals)))
    ELSE IF callee_val.k = "class" THEN call_class(st, callee_val.n, arguments)
    ELSE Raise(st, "InterpreterError", "Can only call functions and classes")

\* history: obj.get_field(name) on instance o has ended as `got'; with it the
\* field the instance held under the name (arg tells whether it held one) and
\* the method the class chain holds under it (0 for none)
field_got(st, o, name, got) ==
    LET fields == st.objects[o].fields
    IN  [got EXCEPT !.st = Log(@, Outcome(Event("get", name, st.environment, got.val,
                                                IF name \in DOMAIN fields THEN fields[name] ELSE Null,
                                                o, get_method(st.classes, st.objects[o].class_def, name)),
                                          got.exc, BoolV(name \in DOMAIN fields)))]

\* the value of the binding of name that the nearest one shadows, None when
\* there is none
shadowed_value(es, e, name) ==
    LET b == binding_env(es, e, name)
    IN  IF b = 0 THEN Null
        ELSE IF es[b].parent = 0 THEN Null
        ELSE get_variable(es, es[b].parent, name)

\* history: the assignment `name = value' (a Set whose object is the Variable
\* of that name), evaluated in state st, has ended as `set': the value of the
\* right-hand side (arg), the environment that bound the name before (a, 0
\* for none), the value its nearest binding holds now (near), and whether
\* the names of the current environment and the shadowed binding are as
\* before (b)
assigned(st, name, value, set) ==
    LET e == st.environment
        same == /\ DOMAIN set.st.envs[e].variables = DOMAIN st.envs[e].variables
                /\ shadowed_value(set.st.envs, e, name) = shadowed_value(st.envs, e, name)
    IN  [set EXCEPT !.st = Log(@, Outcome(Event("assigned", name, e, set.val,
                                                get_variable(set.st.envs, e, name),
                                                binding_env(st.envs, e, name),
                                                IF same THEN 1 ELSE 0),
                                          set.exc, value))]

\* history: Super(method) evaluated in state st has ended as `found': the
\* instance `this' is bound to in the scope chain (near), and the method the
\* method table of its class's superclass holds (a, 0 for none)
super_seen(st, method, found) ==
    LET this_val == get_variable(st.envs, st.environment, "this")
        parent == IF this_val.k = "obj" THEN st.classes[st.objects[this_val.n].class_def].parent ELSE 0
    IN  [found EXCEPT !.st = Log(@, Outcome(Event("super", method, st.environment, found.val, this_val,
                                                  IF parent # 0 THEN get_method(st.classes, parent, method)
                                                  ELSE 0,
                                                  parent),
                                            found.exc, Null))]

\* history: `object[index]' on the array or list object_val has ended as
\* `got': the value the index expression has in state st (arg), the length
\* of the array (a) and the element at that index (near, None out of range)
index_seen(st, expr, object_val, got) ==
    IF expr.aux # "[]" \/ object_val.k \notin {"arr", "list"} THEN got
    ELSE LET index == evaluate(expr.kids[2], st).val
             elements == IF object_val.k = "arr" THEN st.arrays[object_val.n].elements
                         ELSE [i \in 1..object_val.n |-> ExprV(object_val.s, i)]
             in_range == index.k = "int" /\ index.n >= 0 /\ index.n < Len(elements)
         IN  [got EXCEPT !.st = Log(@, Outcome(Event("index", expr.name, st.environment, got.val,
                                                     IF in_range THEN elements[index.n + 1] ELSE Null,
                                                     Len(elements), IF in_range THEN 1 ELSE 0),
                                               got.exc, index))]

\* the MusArray branch of Get
array_get(st, a, name) ==
    LET index == int_of(name)
        elements == st.arrays[a].elements
    IN  IF name = "length" THEN Ok(st, IntV(Len(elements)))
        ELSE IF ~index.ok THEN Raise(st, "InterpreterError", "Unknown array method")
        ELSE IF index.n < 0 \/ index.n >= Len(elements)
             THEN Raise(st, "IndexError", "Array index out of bounds")
        ELSE Ok(st, elements[index.n + 1])

\* obj.set(index, value_val) of the MusArray branch of Set
array_set(st, a, index, value_val) ==
    IF index < 0 \/ index >= Len(st.arrays[a].elements)
    THEN Raise(st, "IndexError", "Array index out of bounds")
    ELSE Ok([st EXCEPT !.arrays[a].elements[index + 1] = value_val], value_val)

\* the Set case
\* history: a Set on the instance or the array `object' has stored a value
set_seen(object, stored) ==
    [stored EXCEPT !.st = Log(@, Outcome(Event("set", "", stored.st.environment, stored.val,
                                               object, 0, 0), stored.exc, Null))]

evaluate_set_seen(expr, st) ==
    Then(evaluate(expr.kids[1], st), LAMBDA object :
        IF object.val.k = "arr"
        THEN IF ~int_of(expr.name).ok
             THEN Raise(object.st, "InterpreterError", "Invalid array index")
             ELSE With(evaluate(expr.kids[2], object.st), LAMBDA value :
                      IF value.exc = "ValueError"
                      THEN Raise(value.st, "InterpreterError", "Invalid array index")
                      ELSE IF value.exc # "" THEN value
                      ELSE array_set(value.st, object.val.n, int_of(expr.name).n, value.val))
        ELSE IF object.val.k = "obj"
             THEN Then(evaluate(expr.kids[2], object.st), LAMBDA value :
                  Then(set_field(value.st, object.val.n, expr.name, value.val), LAMBDA stored :
                      Ok(stored.st, value.val)))
        ELSE Raise(object.st, "InterpreterError", "Only instances have fields"))

evaluate_set(expr, st) ==
    With(evaluate_set_seen(expr, st), LAMBDA stored :
        IF stored.exc = "" THEN set_seen(evaluate(expr.kids[1], st).val, stored) ELSE stored)

evaluate(expr, st) ==
    CASE expr.t = "Literal" -> Ok(st, expr.val)
      [] expr.t = "Variable" -> lookup_variable(st, expr.name)
      [] expr.t = "This" -> lookup_variable(st, "this")
      [] expr.t = "Super" ->
            super_seen(st, expr.name,
                       IF locals_get(st, "super") = -1
                       THEN Raise(st, "InterpreterError", "'super' reference not available")
                       ELSE evaluate_super(st, expr.name))
      [] expr.t = "Binary" ->
            Then(evaluate(expr.kids[1], st), LAMBDA left :
            Then(evaluate(expr.kids[2], left.st), LAMBDA right :
                binary_seen(expr.name, left.val, right.val,
                            evaluate_binary(right.st, expr.name, left.val, right.val))))
      [] expr.t = "Unary" ->
            Then(evaluate(expr.kids[1], st), LAMBDA right :
                evaluate_unary(right.st, expr.name, right.val))
      [] expr.t = "Call" ->
            Then(evaluate(expr.kids[1], st), LAMBDA callee :
                evaluate_call(callee_seen(callee.st, expr.kids[1], callee.val), callee.val,
                              Tail(expr.kids)))
      [] expr.t = "Get" ->
            Then(evaluate(expr.kids[1], st), LAMBDA object :
                IF object.val.k = "arr"
                THEN index_seen(object.st, expr, object.val,
                                array_get(object.st, object.val.n, expr.name))
                ELSE IF object.val.k = "obj"
                     THEN With(get_field(object.st, object.val.n, expr.name), LAMBDA got :
                              field_got(object.st, object.val.n, expr.name, got))
                ELSE index_seen(object.st, expr, object.val,
                                Raise(object.st, "InterpreterError", "Only instances have properties")))
      [] expr.t = "Set" ->
            IF expr.kids[1].t = "Variable" /\ expr.kids[1].name = expr.name
            THEN With(evaluate_set(expr, st), LAMBDA set :
                     assigned(st, expr.name, evaluate(expr.kids[2], st).val, set))
            ELSE evaluate_set(expr, st)
      [] OTHER -> Raise(st, "InterpreterError", "Unknown expression type")

\* the class_fields loop of ClassDeclaration: a result with the mapping from
\* field name to (type_name, value) in `fields'
class_fields(fields, st, acc) ==
    IF fields = <<>> THEN [st |-> st, exc |-> "", msg |-> "", val |-> Null, fields |-> acc]
    ELSE With(IF fields[1].kids # <<>> THEN evaluate(fields[1].kids[1], st) ELSE Ok(st, Null),
              LAMBDA value :
                  IF value.exc # ""
                  THEN [st |-> value.st, exc |-> value.exc, msg |-> value.msg, val |-> Null,
                        fields |-> acc]
                  ELSE class_fields(Tail(fields), value.st,
                                    Put(acc, fields[1].name,
                                        [type |-> fields[1].aux, value |-> value.val])))

\* the class_methods loop of ClassDeclaration: [funcs, methods], a new
\* MusFunction over the current environment for each method
RECURSIVE class_methods(_, _, _, _)
class_methods(methods, fs, e, acc) ==
    IF methods = <<>> THEN [funcs |-> fs, methods |-> acc]
    ELSE class_methods(Tail(methods),
                       Append(fs, MusFunction(methods[1].name, methods[1].params, methods[1].kids, e)),
                       e, Put(acc, methods[1].name, Len(fs) + 1))

IsField(member) == member.t = "VarDeclaration"
IsMethod(member) == member.t = "FunctionDeclaration"

\* the VarDeclaration case, the initializer evaluated (None without one)
declare_variable(st, stmt, value) ==
    LET element_type == element_type_of(stmt.aux)
        \* MusArray(value if isinstance(value, list) else [value], element_type)
        elements == IF value.k = "list" THEN [i \in 1..value.n |-> ExprV(value.s, i)]
                    ELSE <<value>>
        wrap == stmt.kids # <<>> /\ element_type # "" /\ value.k # "arr"
        st1 == IF wrap THEN [st EXCEPT !.arrays = Append(@, MusArray(elements, element_type))]
               ELSE st
        v == IF wrap THEN ArrV(Len(st.arrays) + 1) ELSE value
        \* history: the declaration of stmt.name with the declared type (arg),
        \* the value of the initializer (val), the value bound afterwards (near)
        declared == Outcome(Event("declared", stmt.name, st.environment, value, v, 0, 0),
                            "", StrV(stmt.aux))
    IN  Ok(Log([st1 EXCEPT !.envs = define_variable(@, st.environment, stmt.name, stmt.aux, v)],
               declared), Null)

\* the ClassDeclaration case, the superclass looked up and the field
\* initializers evaluated
declare_class(st, stmt, parent, fields) ==
    LET methods == class_methods(SelectSeq(stmt.kids, IsMethod), st.funcs, st.environment, EmptyMap)
        class_def == MusClass(stmt.name, fields, methods.methods, parent, st.environment)
    IN  Ok([st EXCEPT !.funcs = methods.funcs,
                      !.classes = Append(@, class_def),
                      !.envs[st.environment].classes = Put(@, stmt.name, Len(st.classes) + 1)],
           Null)

\* history: a statement executed while the body of a function runs
statement_seen(st, stmt) ==
    IF st.frame # 0 THEN Log(st, Event("stmt", stmt.t, st.environment, Null, Null, st.frame, 0))
    ELSE st

\* history: the value of an expression statement
expression_seen(st, value) == Log(st, Event("expr", "", st.environment, value, Null, 0, 0))

\* history: a Block statement ended, with the current environment before
\* and after it
block_seen(run, env, previous) ==
    [run EXCEPT !.st = Log(@, Outcome(Event("block", "", env, Null, Null, previous,
                                            run.st.environment), run.exc, Null))]

execute_seen(stmt, st) ==
    CASE stmt.t = "ExpressionStmt" ->
            Then(evaluate(stmt.kids[1], st), LAMBDA value :
                Ok(expression_seen(value.st, value.val), Null))
      [] stmt.t = "VarDeclaration" ->
            Then(IF stmt.kids # <<>> THEN evaluate(stmt.kids[1], st) ELSE Ok(st, Null), LAMBDA value :
                declare_variable(value.st, stmt, value.val))
      [] stmt.t = "FunctionDeclaration" ->
            Ok([st EXCEPT !.funcs = Append(@, MusFunction(stmt.name, stmt.params, stmt.kids,
                                                          st.environment)),
                          !.envs[st.environment].functions = Put(@, stmt.name, Len(st.funcs) + 1)],
               Null)
      [] stmt.t = "ClassDeclaration" ->
            IF stmt.aux # "" /\ get_class(st.envs, st.environment, stmt.aux) = 0
            THEN Raise(st, "InterpreterError", "Superclass not found")
            ELSE With(class_fields(SelectSeq(stmt.kids, IsField), st, EmptyMap), LAMBDA fields :
                     IF fields.exc # "" THEN Raise(fields.st, fields.exc, fields.msg)
                     ELSE declare_class(fields.st, stmt,
                                        IF stmt.aux # ""
                                        THEN get_class(st.envs, st.environment, stmt.aux) ELSE 0,
                                        fields.fields))
      [] stmt.t = "Block" ->
            With(execute_block(stmt.kids, Len(st.envs) + 1,
                               [st EXCEPT !.envs = Append(@, NewEnvironment(st.environment))]),
                 LAMBDA run : block_seen(run, Len(st.envs) + 1, st.environment))
      [] stmt.t = "If" ->
            Then(evaluate(stmt.kids[1], st), LAMBDA condition :
                IF is_truthy(condition.val) THEN execute(stmt.kids[2], condition.st)
                ELSE IF Len(stmt.kids) = 3 THEN execute(stmt.kids[3], condition.st)
                ELSE Ok(condition.st, Null))
      [] stmt.t = "While" -> execute_while(stmt, st, MaxLoop)
      [] stmt.t = "For" ->
            Then(evaluate(stmt.kids[1], st), LAMBDA iterable :
                IF iterable.val.k # "list"
                THEN Raise(iterable.st, "InterpreterError", "Can only iterate over arrays")
                ELSE execute_for(stmt, iterable.st,
                                 [i \in 1..iterable.val.n |-> ExprV(iterable.val.s, i)]))
      [] stmt.t = "Return" ->
            Then(IF stmt.kids # <<>> THEN evaluate(stmt.kids[1], st) ELSE Ok(st, Null), LAMBDA value :
                [st |-> value.st, exc |-> "ReturnValue", msg |-> "", val |-> value.val])
      [] OTHER -> Raise(st, "InterpreterError", "Unknown statement type")

execute(stmt, st) == execute_seen(stmt, statement_seen(st, stmt))

\* while self.is_truthy(self.evaluate(condition)): self.execute(body).  A loop
\* still running after MaxLoop iterations ends the model's evaluation as
\* "Diverge", which no action takes as a step.
execute_while(stmt, st, fuel) ==
    Then(evaluate(stmt.kids[1], st), LAMBDA condition :
        IF ~is_truthy(condition.val) THEN Ok(condition.st, Null)
        ELSE IF fuel = 0 THEN Raise(condition.st, "Diverge", "")
        ELSE Then(execute(stmt.kids[2], condition.st), LAMBDA body :
                 execute_while(stmt, body.st, fuel - 1)))

\* for item in iterable_value: a new environment binding the iterator,
\* execute_block([body], env)
execute_for(stmt, st, items) ==
    IF items = <<>> THEN Ok(st, Null)
    ELSE Then(execute_block(<<stmt.kids[2]>>, Len(st.envs) + 1,
                            [st EXCEPT !.envs = define_variable(Append(@, NewEnvironment(st.environment)),
                                                                Len(st.envs) + 1, stmt.name, "any",
                                                                items[1])]),
              LAMBDA body : execute_for(stmt, body.st, Tail(items)))

\* for statement in statements: self.execute(statement)
execute_statements(statements, st) ==
    IF statements = <<>> THEN Ok(st, Null)
    ELSE Then(execute(statements[1], st), LAMBDA first :
             execute_statements(Tail(statements), first.st))

\* execute_block without its finally clause: an exception leaves `env' the
\* current environment
execute_block_without_finally(statements, env, st) ==
    With(execute_statements(statements, [st EXCEPT !.environment = env]), LAMBDA run :
        IF run.exc # "" THEN run ELSE [run EXCEPT !.st.environment = st.environment])

\* execute_block: the statements run with `env' as the current environment;
\* the finally clause restores the previous one on every way out
execute_block(statements, env, st) ==
    With(execute_statements(statements, [st EXCEPT !.environment = env]), LAMBDA run :
        [run EXCEPT !.st.environment = st.environment])

(***************************************************************************)
(* Lexer (lexer.py).  A source text is a sequence of one-character         *)
(* strings; positions count from 0 as in the code, so the character at     *)
(* position p is source[p + 1].                                            *)
(***************************************************************************)
Token(type, lexeme, literal, line, column) ==
    [type |-> type, lexeme |-> lexeme, literal |-> literal, line |-> line, column |-> column]

Digits == {"0", "1", "2", "3", "4", "5", "6", "7", "8", "9"}
Letters == {"a", "b", "c", "d", "e", "f", "g", "h", "i", "j", "k", "l", "m",
            "n", "o", "p", "q", "r", "s", "t", "u", "v", "w", "x", "y", "z",
            "A", "B", "C", "D", "E", "F", "G", "H", "I", "J", "K", "L", "M",
            "N", "O", "P", "Q", "R", "S", "T", "U", "V", "W", "X", "Y", "Z"}
\* str.isdigit, str.isalpha, str.isalnum on one character
isdigit(c) == c \in Digits
isalpha(c) == c \in Letters
isalnum(c) == isdigit(c) \/ isalpha(c)

KEYWORDS ==
    [text \in {"class", "fun", "var", "if", "else", "elif", "while", "for", "in", "return",
               "this", "super", "extends", "new", "true", "false"} |->
        CASE text = "class" -> "CLASS"
          [] text = "fun" -> "FUN"
          [] text = "var" -> "VAR"
          [] text = "if" -> "IF"
          [] text = "else" -> "ELSE"
          [] text = "elif" -> "ELIF"
          [] text = "while" -> "WHILE"
          [] text = "for" -> "FOR"
          [] text = "in" -> "IN"
          [] text = "return" -> "RETURN"
          [] text = "this" -> "THIS"
          [] text = "super" -> "SUPER"
          [] text = "extends" -> "EXTENDS"
          [] text = "new" -> "NEW"
          [] OTHER -> "BOOLEAN"]

\* Lexer.__init__; exc, msg, err_line, err_column hold the exception that
\* ended the scan ("" for none)
Lexer(source) ==
    [source |-> source, tokens |-> <<>>, start |-> 0, current |-> 0, line |-> 1, column |-> 1,
     exc |-> "", msg |-> "", err_line |-> 0, err_column |-> 0]

\* raise LexerError(message, self.line, self.column)
LexerError(lx, message) ==
    [lx EXCEPT !.exc = "LexerError", !.msg = message, !.err_line = lx.line,
               !.err_column = lx.column]

is_at_end(lx) == lx.current >= Len(lx.source)
peek(lx) == IF is_at_end(lx) THEN "\\0" ELSE lx.source[lx.current + 1]
peek_next(lx) == IF lx.current + 1 >= Len(lx.source) THEN "\\0" ELSE lx.source[lx.current + 2]
\* advance and a successful match: the character is consumed
advance(lx) == [lx EXCEPT !.current = @ + 1, !.column = @ + 1]
match(lx, expected) == ~is_at_end(lx) /\ lx.source[lx.current + 1] = expected

\* the string of the characters of a sequence
RECURSIVE join(_)
join(chars) == IF chars = <<>> THEN "" ELSE Head(chars) \o join(Tail(chars))

\* self.source[from:to]
slice(lx, from, to) == SubSeq(lx.source, from + 1, to)

add_token(lx, type, literal) ==
    [lx EXCEPT !.tokens = Append(@, Token(type, join(slice(lx, lx.start, lx.current)), literal,
                                          lx.line, lx.column - (lx.current - lx.start)))]

\* a comment goes until the end of the line
RECURSIVE comment(_)
comment(lx) == IF peek(lx) # "\n" /\ ~is_at_end(lx) THEN comment(advance(lx)) ELSE lx

RECURSIVE identifier(_)
identifier(lx) ==
    IF isalnum(peek(lx)) \/ peek(lx) = "_" THEN identifier(advance(lx))
    ELSE LET text == join(slice(lx, lx.start, lx.current))
             token_type == IF text \in DOMAIN KEYWORDS THEN KEYWORDS[text] ELSE "IDENTIFIER"
         IN  add_token(lx, token_type,
                       IF token_type = "BOOLEAN" THEN BoolV(text = "true") ELSE Null)

\* int(text): [ok, n]; ok is FALSE (ValueError) for a text with a character
\* that is no digit
RECURSIVE int(_, _)
int(chars, acc) ==
    IF chars = <<>> THEN [ok |-> TRUE, n |-> acc]
    ELSE IF ~isdigit(Head(chars)) THEN [ok |-> FALSE, n |-> 0]
    ELSE int(Tail(chars),
             10 * acc + (CHOOSE d \in 0..9 : ToString(d) = Head(chars)))

RECURSIVE digits(_)
digits(lx) == IF isdigit(peek(lx)) THEN digits(advance(lx)) ELSE lx

number(lx) ==
    LET whole == digits(lx)
        all == IF peek(whole) = "." /\ isdigit(peek_next(whole)) THEN digits(advance(whole))
               ELSE whole
        value == int(slice(all, all.start, all.current), 0)
    IN  IF value.ok THEN add_token(all, "INTEGER", IntV(value.n))
        ELSE [all EXCEPT !.exc = "ValueError", !.msg = "invalid literal for int()"]

RECURSIVE string(_)
string(lx) ==
    IF peek(lx) # "\"" /\ ~is_at_end(lx)
    THEN string(advance(IF peek(lx) = "\n" THEN [lx EXCEPT !.line = @ + 1, !.column = 1]
                        ELSE lx))
    ELSE IF is_at_end(lx) THEN LexerError(lx, "Unterminated string")
    ELSE LET closed == advance(lx)
         IN  add_token(closed, "STRING",
                       StrV(join(slice(closed, closed.start + 1, closed.current - 1))))

\* the token type of a character that is a token by itself
SingleCharacterTokens ==
    [c \in {"(", ")", "{", "}", "[", "]", ",", ".", "+", "*", "%", ";"} |->
        CASE c = "(" -> "LEFT_PAREN"
          [] c = ")" -> "RIGHT_PAREN"
          [] c = "{" -> "LEFT_BRACE"
          [] c = "}" -> "RIGHT_BRACE"
          [] c = "[" -> "LEFT_BRACKET"
          [] c = "]" -> "RIGHT_BRACKET"
          [] c = "," -> "COMMA"
          [] c = "." -> "DOT"
          [] c = "+" -> "PLUS"
          [] c = "*" -> "MULTIPLY"
          [] c = "%" -> "MODULO"
          [] OTHER -> "SEMICOLON"]

scan_token(lx0) ==
    LET c == peek(lx0)
        lx == advance(lx0)
    IN  CASE c \in DOMAIN SingleCharacterTokens -> add_token(lx, SingleCharacterTokens[c], Null)
          [] c = "=" -> IF match(lx, "=") THEN add_token(advance(lx), "EQUALS", Null)
                        ELSE IF match(lx, ">") THEN add_token(advance(lx), "ARROW", Null)
                        ELSE add_token(lx, "ASSIGN", Null)
          [] c = "!" -> IF match(lx, "=") THEN add_token(advance(lx), "NOT_EQUALS", Null)
                        ELSE add_token(lx, "NOT", Null)
          [] c = ">" -> IF match(lx, "=") THEN add_token(advance(lx), "GREATER_EQUAL", Null)
                        ELSE add_token(lx, "GREATER", Null)
          [] c = "<" -> IF match(lx, "=") THEN add_token(advance(lx), "LESS_EQUAL", Null)
                        ELSE add_token(lx, "LESS", Null)
          [] c = "-" -> IF match(lx, "-") THEN comment(advance(lx))
                        ELSE add_token(lx, "MINUS", Null)
          [] c = "/" -> IF match(lx, "/") THEN comment(advance(lx))
                        ELSE add_token(lx, "DIVIDE", Null)
          [] c \in {" ", "\r", "\t"} -> lx
          [] c = "\n" -> [lx EXCEPT !.line = @ + 1, !.column = 1]
          [] c = "\"" -> string(lx)
          [] OTHER -> IF isdigit(c) THEN number(lx)
                      ELSE IF isalpha(c) \/ c = "_" THEN identifier(lx)
                      ELSE LexerError(lx, "Unexpected character: " \o c)

RECURSIVE scan_tokens(_)
scan_tokens(lx) ==
    IF lx.exc # "" THEN lx
    ELSE IF is_at_end(lx)
    THEN [lx EXCEPT !.tokens = Append(@, Token("EOF", "", Null, lx.line, lx.column))]
    ELSE scan_tokens(scan_token([lx EXCEPT !.start = lx.current]))

(***************************************************************************)
(* Parser (parser.py:173-584).  `ts' is the token list, `cur' is           *)
(* self.current (the current token is ts[cur + 1]).  A parsing method      *)
(* yields [cur, exc, msg, node]: the position it leaves the parser at, the *)
(* exception it raised ("" for none) and what it returns.                  *)
(***************************************************************************)
Parsed(cur, node) == [cur |-> cur, exc |-> "", msg |-> "", node |-> node]
\* raise ParserError(message, token)
ParserError(message, cur) == [cur |-> cur, exc |-> "ParserError", msg |-> message, node |-> Null]

parser_peek(ts, cur) == ts[cur + 1]
parser_is_at_end(ts, cur) == parser_peek(ts, cur).type = "EOF"
check(ts, cur, type) == ~parser_is_at_end(ts, cur) /\ parser_peek(ts, cur).type = type
\* match(*types): whether the current token is one of the types, and is
\* consumed
parser_match(ts, cur, types) == \E type \in types : check(ts, cur, type)
parser_advance(ts, cur) == IF parser_is_at_end(ts, cur) THEN cur ELSE cur + 1
\* consume: the node of the result is the token consumed
consume(ts, cur, type, message) ==
    IF check(ts, cur, type) THEN Parsed(cur + 1, parser_peek(ts, cur))
    ELSE ParserError(message, cur)

\* the statement Parser.declaration returns for a ParserError it caught:
\* ExpressionStmt(Literal(None, error.token)).  The message of the error is
\* kept in the literal's name and the cursor before and after synchronize in
\* its params, for the history only.
ErrorStmt(message, at, to) ==
    ExpressionStmt([Literal(Null) EXCEPT !.name = message, !.params = <<at, to>>])

\* the text of the tokens ts[from + 1 .. to], a label for an array literal
RECURSIVE lexemes(_, _, _)
lexemes(ts, from, to) ==
    IF from >= to THEN "" ELSE ts[from + 1].lexeme \o lexemes(ts, from + 1, to)

\* previous: self.tokens[self.current - 1], the last token for current = 0
previous(ts, cur) == ts[IF cur = 0 THEN Len(ts) ELSE cur]

RECURSIVE synchronize_loop(_, _)
synchronize_loop(ts, cur) ==
    IF parser_is_at_end(ts, cur) THEN cur
    ELSE IF previous(ts, cur).type = "RIGHT_BRACE" THEN cur
    ELSE IF parser_peek(ts, cur).type \in {"CLASS", "FUN", "VAR", "IF", "WHILE", "FOR", "RETURN"}
    THEN cur
    ELSE synchronize_loop(ts, parser_advance(ts, cur))

\* synchronize without the advance it starts with
synchronize_without_advance(ts, cur) == synchronize_loop(ts, cur)

synchronize(ts, cur) == synchronize_loop(ts, parser_advance(ts, cur))

RECURSIVE expression(_, _), assignment(_, _), equality(_, _), equality_loop(_, _),
          comparison(_, _), comparison_loop(_, _), term(_, _), term_loop(_, _),
          factor(_, _), factor_loop(_, _), unary(_, _), call(_, _), call_loop(_, _),
          finish_call(_, _, _), expressions(_, _, _), primary(_, _),
          declaration(_, _), class_declaration(_, _), class_members(_, _, _, _),
          function_declaration(_, _), parameters(_, _, _), var_declaration(_, _),
          statement(_, _), if_statement(_, _), while_statement(_, _), for_statement(_, _),
          return_statement(_, _), expression_statement(_, _), block(_, _),
          declarations(_, _, _)

expression(ts, cur) == assignment(ts, cur)

assignment(ts, cur) ==
    Then(equality(ts, cur), LAMBDA expr :
        IF ~parser_match(ts, expr.cur, {"ASSIGN"}) THEN expr
        ELSE Then(assignment(ts, expr.cur + 1), LAMBDA value :
                 IF expr.node.t = "Variable"
                 THEN Parsed(value.cur, Set(expr.node, expr.node.name, value.node))
                 ELSE IF expr.node.t = "Get"
                 THEN Parsed(value.cur, Set(expr.node.kids[1], expr.node.name, value.node))
                 ELSE ParserError("Invalid assignment target.", value.cur)))

equality_loop(ts, expr) ==
    IF ~parser_match(ts, expr.cur, {"EQUALS", "NOT_EQUALS"}) THEN expr
    ELSE Then(comparison(ts, expr.cur + 1), LAMBDA right :
             equality_loop(ts, Parsed(right.cur, Binary(expr.node, parser_peek(ts, expr.cur).type,
                                                        right.node))))

equality(ts, cur) == Then(comparison(ts, cur), LAMBDA expr : equality_loop(ts, expr))

comparison_loop(ts, expr) ==
    IF ~parser_match(ts, expr.cur, {"GREATER", "GREATER_EQUAL", "LESS", "LESS_EQUAL"}) THEN expr
    ELSE Then(term(ts, expr.cur + 1), LAMBDA right :
             comparison_loop(ts, Parsed(right.cur, Binary(expr.node, parser_peek(ts, expr.cur).type,
                                                          right.node))))

comparison(ts, cur) == Then(term(ts, cur), LAMBDA expr : comparison_loop(ts, expr))

term_loop(ts, expr) ==
    IF ~parser_match(ts, expr.cur, {"PLUS", "MINUS"}) THEN expr
    ELSE Then(factor(ts, expr.cur + 1), LAMBDA right :
             term_loop(ts, Parsed(right.cur, Binary(expr.node, parser_peek(ts, expr.cur).type,
                                                    right.node))))

term(ts, cur) == Then(factor(ts, cur), LAMBDA expr : term_loop(ts, expr))

factor_loop(ts, expr) ==
    IF ~parser_match(ts, expr.cur, {"MULTIPLY", "DIVIDE", "MODULO"}) THEN expr
    ELSE Then(unary(ts, expr.cur + 1), LAMBDA right :
             factor_loop(ts, Parsed(right.cur, Binary(expr.node, parser_peek(ts, expr.cur).type,
                                                      right.node))))

factor(ts, cur) == Then(unary(ts, cur), LAMBDA expr : factor_loop(ts, expr))

unary(ts, cur) ==
    IF parser_match(ts, cur, {"NOT", "MINUS"})
    THEN Then(unary(ts, cur + 1), LAMBDA right :
             Parsed(right.cur, Unary(parser_peek(ts, cur).type, right.node)))
    ELSE call(ts, cur)

call_loop(ts, expr) ==
    IF parser_match(ts, expr.cur, {"LEFT_PAREN"})
    THEN Then(finish_call(ts, expr.cur + 1, expr.node), LAMBDA called : call_loop(ts, called))
    ELSE IF parser_match(ts, expr.cur, {"DOT"})
    THEN Then(consume(ts, expr.cur + 1, "IDENTIFIER", "Expected property name after '.'."),
              LAMBDA name : call_loop(ts, Parsed(name.cur, Get(expr.node, name.node.lexeme))))
    ELSE IF parser_match(ts, expr.cur, {"LEFT_BRACKET"})
    THEN Then(expression(ts, expr.cur + 1), LAMBDA index :
         Then(consume(ts, index.cur, "RIGHT_BRACKET", "Expected ']' after array index."),
              LAMBDA bracket : call_loop(ts, Parsed(bracket.cur, GetIndex(expr.node, index.node)))))
    ELSE expr

call(ts, cur) == Then(primary(ts, cur), LAMBDA expr : call_loop(ts, expr))

\* `while True: list.append(self.expression()); if not self.match(COMMA): break'
expressions(ts, cur, list) ==
    Then(expression(ts, cur), LAMBDA e :
        IF parser_match(ts, e.cur, {"COMMA"}) THEN expressions(ts, e.cur + 1, Append(list, e.node))
        ELSE Parsed(e.cur, Append(list, e.node)))

finish_call(ts, cur, callee) ==
    Then(IF check(ts, cur, "RIGHT_PAREN") THEN Parsed(cur, <<>>) ELSE expressions(ts, cur, <<>>),
         LAMBDA arguments :
    Then(consume(ts, arguments.cur, "RIGHT_PAREN", "Expected ')' after arguments."),
         LAMBDA paren : Parsed(paren.cur, Call(callee, arguments.node))))

primary(ts, cur) ==
    IF parser_match(ts, cur, {"INTEGER", "STRING", "BOOLEAN"})
    THEN Parsed(cur + 1, Literal(parser_peek(ts, cur).literal))
    ELSE IF parser_match(ts, cur, {"THIS"}) THEN Parsed(cur + 1, This)
    ELSE IF parser_match(ts, cur, {"SUPER"})
    THEN Then(consume(ts, cur + 1, "DOT", "Expected '.' after 'super'."), LAMBDA dot :
         Then(consume(ts, dot.cur, "IDENTIFIER", "Expected superclass method name."),
              LAMBDA method : Parsed(method.cur, Super(method.node.lexeme))))
    ELSE IF parser_match(ts, cur, {"IDENTIFIER"})
    THEN Parsed(cur + 1, Variable(parser_peek(ts, cur).lexeme))
    ELSE IF parser_match(ts, cur, {"LEFT_PAREN"})
    THEN Then(expression(ts, cur + 1), LAMBDA expr :
         Then(consume(ts, expr.cur, "RIGHT_PAREN", "Expected ')' after expression."),
              LAMBDA paren : Parsed(paren.cur, expr.node)))
    ELSE IF parser_match(ts, cur, {"LEFT_BRACKET"})
    THEN Then(IF check(ts, cur + 1, "RIGHT_BRACKET") THEN Parsed(cur + 1, <<>>)
              ELSE expressions(ts, cur + 1, <<>>), LAMBDA elements :
         Then(consume(ts, elements.cur, "RIGHT_BRACKET", "Expected ']' after array elements."),
              LAMBDA bracket :
                  Parsed(bracket.cur, Literal(ListV(lexemes(ts, cur, bracket.cur),
                                                    Len(elements.node))))))
    ELSE IF parser_match(ts, cur, {"NEW"})
    THEN Then(consume(ts, cur + 1, "IDENTIFIER", "Expected class name after 'new'."), LAMBDA name :
         Then(consume(ts, name.cur, "LEFT_PAREN", "Expected '(' after class name."), LAMBDA paren :
              finish_call(ts, paren.cur, Variable(name.node.lexeme))))
    ELSE ParserError("Expected expression.", cur)

declaration(ts, cur) ==
    With(IF parser_match(ts, cur, {"CLASS"}) THEN class_declaration(ts, cur + 1)
         ELSE IF parser_match(ts, cur, {"FUN"}) THEN function_declaration(ts, cur + 1)
         ELSE IF parser_match(ts, cur, {"VAR"}) THEN var_declaration(ts, cur + 1)
         ELSE statement(ts, cur), LAMBDA stmt :
        IF stmt.exc = "ParserError"
        THEN Parsed(synchronize(ts, stmt.cur),
                    ErrorStmt(stmt.msg, stmt.cur, synchronize(ts, stmt.cur)))
        ELSE stmt)

\* the loop over the members of a class body; the node of the result is the
\* fields followed by the methods
class_members(ts, cur, fields, methods) ==
    IF check(ts, cur, "RIGHT_BRACE") \/ parser_is_at_end(ts, cur) THEN Parsed(cur, fields \o methods)
    ELSE IF parser_match(ts, cur, {"VAR"})
    THEN Then(var_declaration(ts, cur + 1), LAMBDA field :
             class_members(ts, field.cur, Append(fields, field.node), methods))
    ELSE IF parser_match(ts, cur, {"FUN"})
    THEN Then(function_declaration(ts, cur + 1), LAMBDA method :
             class_members(ts, method.cur, fields, Append(methods, method.node)))
    ELSE ParserError("Expected field or method declaration.", cur)

class_declaration(ts, cur) ==
    Then(consume(ts, cur, "IDENTIFIER", "Expected class name."), LAMBDA name_token :
    Then(IF parser_match(ts, name_token.cur, {"EXTENDS"})
         THEN consume(ts, name_token.cur + 1, "IDENTIFIER", "Expected superclass name.")
         ELSE Parsed(name_token.cur, [lexeme |-> ""]), LAMBDA superclass_token :
    Then(consume(ts, superclass_token.cur, "LEFT_BRACE", "Expected '{' before class body."),
         LAMBDA brace :
    Then(class_members(ts, brace.cur, <<>>, <<>>), LAMBDA members :
    Then(consume(ts, members.cur, "RIGHT_BRACE", "Expected '}' after class body."),
         LAMBDA closing :
             Parsed(closing.cur, ClassDeclaration(name_token.node.lexeme,
                                                  superclass_token.node.lexeme, members.node)))))))

parameters(ts, cur, list) ==
    Then(consume(ts, cur, "IDENTIFIER", "Expected parameter name."), LAMBDA param_name :
    Then(consume(ts, param_name.cur, "ARROW", "Expected '=>' after parameter name."),
         LAMBDA arrow :
    Then(consume(ts, arrow.cur, "IDENTIFIER", "Expected parameter type."), LAMBDA param_type :
        IF parser_match(ts, param_type.cur, {"COMMA"})
        THEN parameters(ts, param_type.cur + 1,
                        Append(list, <<param_name.node.lexeme, param_type.node.lexeme>>))
        ELSE Parsed(param_type.cur,
                    Append(list, <<param_name.node.lexeme, param_type.node.lexeme>>)))))

\* `while not self.check(RIGHT_BRACE) and not self.is_at_end():
\*      statements.append(self.declaration())'
declarations(ts, cur, statements) ==
    IF check(ts, cur, "RIGHT_BRACE") \/ parser_is_at_end(ts, cur) THEN Parsed(cur, statements)
    ELSE Then(declaration(ts, cur), LAMBDA stmt :
             declarations(ts, stmt.cur, Append(statements, stmt.node)))

function_declaration(ts, cur) ==
    Then(consume(ts, cur, "IDENTIFIER", "Expected function name."), LAMBDA name_token :
    Then(consume(ts, name_token.cur, "LEFT_PAREN", "Expected '(' after function name."),
         LAMBDA paren :
    Then(IF check(ts, paren.cur, "RIGHT_PAREN") THEN Parsed(paren.cur, <<>>)
         ELSE parameters(ts, paren.cur, <<>>), LAMBDA params :
    Then(consume(ts, params.cur, "RIGHT_PAREN", "Expected ')' after parameters."),
         LAMBDA closing :
    Then(consume(ts, closing.cur, "LEFT_BRACE", "Expected '{' before function body."),
         LAMBDA brace :
    Then(declarations(ts, brace.cur, <<>>), LAMBDA body :
    Then(consume(ts, body.cur, "RIGHT_BRACE", "Expected '}' after function body."),
         LAMBDA end :
             Parsed(end.cur, FunctionDeclaration(name_token.node.lexeme, params.node,
                                                 body.node)))))))))

var_declaration(ts, cur) ==
    Then(consume(ts, cur, "IDENTIFIER", "Expected variable name."), LAMBDA name_token :
    Then(consume(ts, name_token.cur, "ARROW", "Expected '=>' after variable name."),
         LAMBDA arrow :
    Then(consume(ts, arrow.cur, "IDENTIFIER", "Expected variable type."), LAMBDA type_token :
        IF parser_match(ts, type_token.cur, {"ASSIGN"})
        THEN Then(expression(ts, type_token.cur + 1), LAMBDA initializer :
                 Parsed(initializer.cur, VarDeclaration(name_token.node.lexeme,
                                                        type_token.node.lexeme,
                                                        <<initializer.node>>)))
        ELSE Parsed(type_token.cur, VarDeclaration(name_token.node.lexeme,
                                                   type_token.node.lexeme, <<>>)))))

statement(ts, cur) ==
    IF parser_match(ts, cur, {"IF"}) THEN if_statement(ts, cur + 1)
    ELSE IF parser_match(ts, cur, {"WHILE"}) THEN while_statement(ts, cur + 1)
    ELSE IF parser_match(ts, cur, {"FOR"}) THEN for_statement(ts, cur + 1)
    ELSE IF parser_match(ts, cur, {"RETURN"}) THEN return_statement(ts, cur + 1)
    ELSE IF parser_match(ts, cur, {"LEFT_BRACE"})
    THEN Then(block(ts, cur + 1), LAMBDA statements : Parsed(statements.cur, Block(statements.node)))
    ELSE expression_statement(ts, cur)

if_statement(ts, cur) ==
    Then(consume(ts, cur, "LEFT_PAREN", "Expected '(' after 'if'."), LAMBDA paren :
    Then(expression(ts, paren.cur), LAMBDA condition :
    Then(consume(ts, condition.cur, "RIGHT_PAREN", "Expected ')' after condition."),
         LAMBDA closing :
    Then(statement(ts, closing.cur), LAMBDA then_branch :
        IF parser_match(ts, then_branch.cur, {"ELSE"})
        THEN Then(statement(ts, then_branch.cur + 1), LAMBDA else_branch :
                 Parsed(else_branch.cur, If(condition.node, then_branch.node,
                                            <<else_branch.node>>)))
        ELSE Parsed(then_branch.cur, If(condition.node, then_branch.node, <<>>))))))

while_statement(ts, cur) ==
    Then(consume(ts, cur, "LEFT_PAREN", "Expected '(' after 'while'."), LAMBDA paren :
    Then(expression(ts, paren.cur), LAMBDA condition :
    Then(consume(ts, condition.cur, "RIGHT_PAREN", "Expected ')' after condition."),
         LAMBDA closing :
    Then(statement(ts, closing.cur), LAMBDA body :
        Parsed(body.cur, While(condition.node, body.node))))))

\* the for statement: after the iterator only `=' is accepted, and the
\* C-style loop is returned as Block([VarDeclaration, While])
for_statement(ts, cur) ==
    Then(consume(ts, cur, "LEFT_PAREN", "Expected '(' after 'for'."), LAMBDA paren :
    Then(consume(ts, IF parser_match(ts, paren.cur, {"VAR"}) THEN paren.cur + 1 ELSE paren.cur,
                 "IDENTIFIER", "Expected iterator variable name."), LAMBDA iterator :
    Then(consume(ts, iterator.cur, "ASSIGN", "Expected '=' after iterator variable."),
         LAMBDA assign :
    Then(expression(ts, assign.cur), LAMBDA start :
    Then(consume(ts, start.cur, "SEMICOLON", "Expected ';' after loop initializer."),
         LAMBDA semicolon :
    Then(expression(ts, semicolon.cur), LAMBDA condition :
    Then(consume(ts, condition.cur, "SEMICOLON", "Expected ';' after loop condition."),
         LAMBDA second :
    Then(expression(ts, second.cur), LAMBDA increment :
    Then(consume(ts, increment.cur, "RIGHT_PAREN", "Expected ')' after for clauses."),
         LAMBDA closing :
    Then(statement(ts, closing.cur), LAMBDA body :
        Parsed(body.cur,
               Block(<< VarDeclaration(iterator.node.lexeme, "integer", <<start.node>>),
                        While(condition.node,
                              IF body.node.t = "Block"
                              THEN Block(Append(body.node.kids, ExpressionStmt(increment.node)))
                              ELSE Block(<<body.node, ExpressionStmt(increment.node)>>))
                     >>))))))))))))

return_statement(ts, cur) ==
    IF check(ts, cur, "RIGHT_BRACE") THEN Parsed(cur, Return(<<>>))
    ELSE Then(expression(ts, cur), LAMBDA value : Parsed(value.cur, Return(<<value.node>>)))

expression_statement(ts, cur) ==
    Then(expression(ts, cur), LAMBDA expr : Parsed(expr.cur, ExpressionStmt(expr.node)))

block(ts, cur) ==
    Then(declarations(ts, cur, <<>>), LAMBDA statements :
    Then(consume(ts, statements.cur, "RIGHT_BRACE", "Expected '}' after block."), LAMBDA brace :
        Parsed(brace.cur, statements.node)))

\* history: the messages of the ParserErrors that Parser.declaration caught
\* while it parsed the statements
RECURSIVE errors_caught(_)
errors_caught(nodes) ==
    IF nodes = <<>> THEN <<>>
    ELSE (IF Head(nodes).t = "Literal" /\ Head(nodes).name # "" THEN <<Head(nodes).name>>
          ELSE errors_caught(Head(nodes).kids)) \o errors_caught(Tail(nodes))

\* Parser.parse: the statements of the whole token list
RECURSIVE parse(_, _, _)
parse(ts, cur, statements) ==
    IF parser_is_at_end(ts, cur) THEN statements
    ELSE With(declaration(ts, cur), LAMBDA stmt :
             parse(ts, stmt.cur, Append(statements, stmt.node)))

(***************************************************************************)
(* Programs: statement lists as Parser.parse returns them for the source   *)
(* text given with each.                                                   *)
(***************************************************************************)
Num(i) == Literal(IntV(i))
Expr(e) == ExpressionStmt(e)

\* fun f() { return 1 }
\* fun g(a => integer) { if (true) { return a } return 0 }
\* fun h() { 1 }
DeclareFunctions ==
    << FunctionDeclaration("f", <<>>, <<Return(<<Num(1)>>)>>),
       FunctionDeclaration("h", <<>>, <<Expr(Num(1))>>),
       FunctionDeclaration("g", << <<"a", "integer">> >>,
           << If(Literal(BoolV(TRUE)), Block(<<Return(<<Variable("a")>>)>>), <<>>),
              Return(<<Num(0)>>) >>) >>

\* class A { var v => integer = 1  var m => integer = 7
\*           fun init(a => integer) { a  { return 5 }  out(a) }
\*           fun hi() { return 1 }  fun m() { return 2 } }
\* class B extends A { var w => integer = 2  fun hi() { return super.hi() } }
DeclareClasses ==
    << ClassDeclaration("A", "",
           << VarDeclaration("v", "integer", <<Num(1)>>),
              VarDeclaration("m", "integer", <<Num(7)>>),
              FunctionDeclaration("init", << <<"a", "integer">> >>,
                  << Expr(Variable("a")), Block(<<Return(<<Num(5)>>)>>),
                     Expr(Call(Variable("out"), <<Variable("a")>>)) >>),
              FunctionDeclaration("hi", <<>>, <<Return(<<Num(1)>>)>>),
              FunctionDeclaration("m", <<>>, <<Return(<<Num(2)>>)>>) >>),
       ClassDeclaration("B", "A",
           << VarDeclaration("w", "integer", <<Num(2)>>),
              FunctionDeclaration("hi", <<>>, <<Return(<<Call(Super("hi"), <<>>)>>)>>) >>) >>

\* class C extends A { fun init() { super.hi() } }
\* class D { var v => integer = 3 }
\* class E { fun init() { while (true) { return 1 }  out(2) } }
DeclareMoreClasses ==
    << ClassDeclaration("C", "A",
           << FunctionDeclaration("init", <<>>, <<Expr(Call(Super("hi"), <<>>))>>) >>),
       ClassDeclaration("D", "", << VarDeclaration("v", "integer", <<Num(3)>>) >>),
       ClassDeclaration("E", "",
           << FunctionDeclaration("init", <<>>,
                  << While(Literal(BoolV(TRUE)), Block(<<Return(<<Num(1)>>)>>)),
                     Expr(Call(Variable("out"), <<Num(2)>>)) >>) >>) >>

Programs ==
    << DeclareFunctions,
       DeclareClasses,
       DeclareMoreClasses,
       \* var x => integer = 1
       << VarDeclaration("x", "integer", <<Num(1)>>) >>,
       \* x
       << Expr(Variable("x")) >>,
       \* { var y => integer = 5  y  { y } }
       << Block(<< VarDeclaration("y", "integer", <<Num(5)>>), Expr(Variable("y")),
                   Block(<<Expr(Variable("y"))>>) >>) >>,
       \* { var x => integer = 2  x }
       << Block(<< VarDeclaration("x", "integer", <<Num(2)>>), Expr(Variable("x")) >>) >>,
       \* nosuch
       << Expr(Variable("nosuch")) >>,
       \* this
       << Expr(This) >>,
       \* x = 2
       << Expr(Set(Variable("x"), "x", Num(2))) >>,
       \* { var x => integer = 2  x = 3 }
       << Block(<< VarDeclaration("x", "integer", <<Num(2)>>),
                   Expr(Set(Variable("x"), "x", Num(3))) >>) >>,
       \* nosuch = 2
       << Expr(Set(Variable("nosuch"), "nosuch", Num(2))) >>,
       \* out(1)
       << Expr(Call(Variable("out"), <<Num(1)>>)) >>,
       \* f()
       << Expr(Call(Variable("f"), <<>>)) >>,
       \* f(1)
       << Expr(Call(Variable("f"), <<Num(1)>>)) >>,
       \* g(1)
       << Expr(Call(Variable("g"), <<Num(1)>>)) >>,
       \* var a => any = new A(7)
       << VarDeclaration("a", "any", <<Call(Variable("A"), <<Num(7)>>)>>) >>,
       \* var a => any = B(7)
       << VarDeclaration("a", "any", <<Call(Variable("B"), <<Num(7)>>)>>) >>,
       \* a.v
       << Expr(Get(Variable("a"), "v")) >>,
       \* a.w
       << Expr(Get(Variable("a"), "w")) >>,
       \* a.m
       << Expr(Get(Variable("a"), "m")) >>,
       \* a.hi
       << Expr(Get(Variable("a"), "hi")) >>,
       \* a.init
       << Expr(Get(Variable("a"), "init")) >>,
       \* a.zz
       << Expr(Get(Variable("a"), "zz")) >>,
       \* a.hi()
       << Expr(Call(Get(Variable("a"), "hi"), <<>>)) >>,
       \* a.v = 3
       << Expr(Set(Variable("a"), "v", Num(3))) >>,
       \* a.m  a.hi  a.zz
       << Expr(Get(Variable("a"), "m")), Expr(Get(Variable("a"), "hi")),
          Expr(Get(Variable("a"), "zz")) >>,
       \* h()
       << Expr(Call(Variable("h"), <<>>)) >>,
       \* a[0]
       << Expr(GetIndex(Variable("a"), Num(0))) >>,
       \* a[2]
       << Expr(GetIndex(Variable("a"), Num(2))) >>,
       \* var a => any = [1, 2]
       << VarDeclaration("a", "any", <<Literal(ListV("[1, 2]", 2))>>) >>,
       \* var s => integer = "s"
       << VarDeclaration("s", "integer", <<Literal(StrV("s"))>>) >>,
       \* var n => string = 1
       << VarDeclaration("n", "string", <<Num(1)>>) >>,
       \* var b => bool = 1
       << VarDeclaration("b", "bool", <<Num(1)>>) >>,
       \* { var y => integer = 5 }  y  { return 1 }
       << Block(<< VarDeclaration("y", "integer", <<Num(5)>>) >>), Expr(Variable("y")),
          Block(<< Return(<<Num(1)>>) >>) >>,
       \* { var y => integer = 5  y() }  y
       << Block(<< VarDeclaration("y", "integer", <<Num(5)>>), Expr(Call(Variable("y"), <<>>)) >>),
          Expr(Variable("y")) >>
    >>

(***************************************************************************)
(* The state machine.                                                      *)
(***************************************************************************)
\* Mus.__init__, and the run of the last file: the source, what the lexer
\* and the parser returned and whether Interpreter.interpret was called;
\* exit_code is the code of SystemExit, 0 for a normal return, -1 while no
\* file has been run
NewMus ==
    [had_error |-> FALSE, had_runtime_error |-> FALSE, exit_code |-> -1, source |-> <<>>,
     tokens |-> <<>>, statements |-> <<>>, interpreted |-> FALSE,
     error |-> [exc |-> "", msg |-> "", line |-> 0, column |-> 0]]

\* Interpreter.__init__ of src/mus/interpreter.py: an environment without
\* variables; `last' is the history of the last line run
NewInterpreter ==
    [variables |-> EmptyMap,
     last |-> [op |-> "", before |-> <<>>, type |-> "", value_expr |-> "", exc |-> ""]]

\* Interpreter.__init__ and define_builtins: the globals hold `out' and
\* `length', native functions without closure
Init ==
    /\ envs = << [parent |-> 0, variables |-> EmptyMap,
                  functions |-> [name \in {"out", "length"} |-> IF name = "out" THEN 1 ELSE 2],
                  classes |-> EmptyMap] >>
    /\ funcs = << [MusFunction("out", << <<"value", "any">> >>, <<>>, 0) EXCEPT !.native_fn = "out"],
                  [MusFunction("length", << <<"array", "array">> >>, <<>>, 0) EXCEPT !.native_fn = "length"] >>
    /\ classes = <<>>
    /\ objects = <<>>
    /\ arrays = <<>>
    /\ environment = 1
    /\ locals = EmptyMap
    /\ printed = <<>>
    /\ result = [exc |-> "", cause |-> "", msg |-> ""]
    /\ trace = <<>>
    /\ steps = 0
    /\ mus = NewMus
    /\ heap \in HeapBases
    /\ again = [ran |-> FALSE, printed |-> <<>>]
    /\ legacy = NewInterpreter

\* interpret(statements): the statements are executed in order; any
\* exception that is not an InterpreterError leaves as an InterpreterError
\* interpret without its except clause: the exception leaves as it is
reraise(exc) == exc

\* except Exception as e: an InterpreterError is raised again, anything else
\* (ReturnValue is an Exception) leaves as a new InterpreterError(str(e))
convert(exc) == IF exc # "InterpreterError" THEN "InterpreterError" ELSE exc

interpreter(base) ==
    [envs |-> envs, funcs |-> funcs, classes |-> classes, objects |-> objects,
     arrays |-> arrays, environment |-> environment, locals |-> locals,
     printed |-> <<>>, trace |-> <<>>, frame |-> 0, heap |-> base]

interpret(statements) ==
    \E run \in {execute_statements(statements, interpreter(heap))} :
        /\ run.exc # "Diverge"
        /\ envs' = run.st.envs
        /\ funcs' = run.st.funcs
        /\ classes' = run.st.classes
        /\ objects' = run.st.objects
        /\ arrays' = run.st.arrays
        /\ environment' = run.st.environment
        /\ locals' = run.st.locals
        /\ printed' = run.st.printed
        /\ trace' = run.st.trace
        /\ result' = [exc |-> IF run.exc = "" THEN "" ELSE convert(run.exc),
                      cause |-> run.exc, msg |-> run.msg]

\* Mus.run on a source text: the interpreter is handed the parsed statements
RunSource ==
    /\ steps < MaxSteps
    /\ steps' = steps + 1
    /\ \E i \in 1..Len(Programs) : interpret(Programs[i])
    /\ UNCHANGED <<mus, heap, again, legacy>>

\* the functions and classes the global namespaces hold, as values
GlobalCallables ==
    {FunV(envs[1].functions[name]) : name \in DOMAIN envs[1].functions}
        \cup {ClassV(envs[1].classes[name]) : name \in DOMAIN envs[1].classes}

ArgumentLists == {<<>>, <<Num(7)>>, <<Num(7), Num(8)>>}

\* interpret on `var a => any = callee(arguments)' where the callee is a
\* Literal node holding the function or class itself.  No source text parses
\* to it: it is how a host reaches the function and class branches of Call.
RunCallOfValue ==
    /\ steps < MaxSteps
    /\ steps' = steps + 1
    /\ \E callee \in GlobalCallables, arguments \in ArgumentLists :
           interpret(<< VarDeclaration("a", "any", <<Call(Literal(callee), arguments)>>) >>)
    /\ UNCHANGED <<mus, heap, again, legacy>>

\* the source texts of the files run
Sources ==
    <<
       \* a == b
       <<"a", " ", "=", "=", " ", "b">>,
       \* a != b
       <<"a", " ", "!", "=", " ", "b">>,
       \* a <= b
       <<"a", " ", "<", "=", " ", "b">>,
       \* a >= b
       <<"a", " ", ">", "=", " ", "b">>,
       \* var a => any
       <<"v", "a", "r", " ", "a", " ", "=", ">", " ", "a", "n", "y">>,
       \* a && b
       <<"a", " ", "&", "&", " ", "b">>,
       \* a || b
       <<"a", " ", "|", "|", " ", "b">>,
       \* a -- b
       <<"a", " ", "-", "-", " ", "b">>,
       \* a // b
       \* c
       <<"a", " ", "/", "/", " ", "b", "\n", "c">>,
       \* "abc
       <<"\"", "a", "b", "c">>,
       \* x
       \* "ab
       \* cd
       <<"x", "\n", "\"", "a", "b", "\n", "c", "d">>,
       \* "ab"
       <<"\"", "a", "b", "\"">>,
       \* for (x in xs) { out(x) }
       <<"f", "o", "r", " ", "(", "x", " ", "i", "n", " ", "x", "s", ")", " ", "{", " ", "o",
          "u", "t", "(", "x", ")", " ", "}">>,
       \* for (var x in xs) { }
       <<"f", "o", "r", " ", "(", "v", "a", "r", " ", "x", " ", "i", "n", " ", "x", "s", ")",
          " ", "{", " ", "}">>,
       \* for (i = 0; i < 2; i = i + 1) { i }
       <<"f", "o", "r", " ", "(", "i", " ", "=", " ", "0", ";", " ", "i", " ", "<", " ", "2",
          ";", " ", "i", " ", "=", " ", "i", " ", "+", " ", "1", ")", " ", "{", " ", "i", " ",
          "}">>,
       \* 1 = 2
       <<"1", " ", "=", " ", "2">>,
       \* var x => any = 1
       \* 1 = 2
       \* x = 5
       <<"v", "a", "r", " ", "x", " ", "=", ">", " ", "a", "n", "y", " ", "=", " ", "1", "\n",
          "1", " ", "=", " ", "2", "\n", "x", " ", "=", " ", "5">>,
       \* var x => any = 2
       <<"v", "a", "r", " ", "x", " ", "=", ">", " ", "a", "n", "y", " ", "=", " ", "2">>,
       \* f() = 2
       <<"f", "(", ")", " ", "=", " ", "2">>,
       \* var x => any = 1 @
       <<"v", "a", "r", " ", "x", " ", "=", ">", " ", "a", "n", "y", " ", "=", " ", "1", " ",
          "@">>,
       \* 1.5
       <<"1", ".", "5">>,
       \* 1 = 2 3 var y => any = 4
       <<"1", " ", "=", " ", "2", " ", "3", " ", "v", "a", "r", " ", "y", " ", "=", ">", " ",
          "a", "n", "y", " ", "=", " ", "4">>,
       \* { 1 = 2 } var y => any = 4
       <<"{", " ", "1", " ", "=", " ", "2", " ", "}", " ", "v", "a", "r", " ", "y", " ", "=",
          ">", " ", "a", "n", "y", " ", "=", " ", "4">>,
       \* var x => any =
       \* var y => any = 3
       \* var z => any = 4
       <<"v", "a", "r", " ", "x", " ", "=", ">", " ", "a", "n", "y", " ", "=", "\n", "v", "a",
          "r", " ", "y", " ", "=", ">", " ", "a", "n", "y", " ", "=", " ", "3", "\n", "v", "a",
          "r", " ", "z", " ", "=", ">", " ", "a", "n", "y", " ", "=", " ", "4">>,
       \* 1 = 2 } 5
       <<"1", " ", "=", " ", "2", " ", "}", " ", "5">>,
       \* fun f() { { } } class C { 1 } 2
       <<"f", "u", "n", " ", "f", "(", ")", " ", "{", " ", "{", " ", "}", " ", "}", " ", "c",
          "l", "a", "s", "s", " ", "C", " ", "{", " ", "1", " ", "}", " ", "2">>
    >>

\* Mus.run_file(path) on a file that holds `source', in a new process: Mus.run
\* lexes and parses it and, self.had_error being false, interprets the
\* statements; a LexerError is reported with Mus.error, an InterpreterError
\* with Mus.runtime_error, any other exception is printed.  run_file then
\* exits with 65 if had_error, with 70 if had_runtime_error.
run_file(source) ==
    LET lexed == scan_tokens(Lexer(source))
        run == [NewMus EXCEPT !.source = source, !.tokens = lexed.tokens]
    IN  IF lexed.exc = "LexerError"
        THEN /\ mus' = [run EXCEPT !.had_error = TRUE, !.exit_code = 65,
                                   !.error = [exc |-> "LexerError", msg |-> lexed.msg,
                                              line |-> lexed.err_line,
                                              column |-> lexed.err_column]]
             /\ UNCHANGED <<envs, funcs, classes, objects, arrays, environment, locals, printed,
                            result, trace>>
        ELSE IF lexed.exc # ""
        THEN /\ mus' = [run EXCEPT !.exit_code = 0,
                                   !.error = [exc |-> lexed.exc, msg |-> lexed.msg,
                                              line |-> 0, column |-> 0]]
             /\ UNCHANGED <<envs, funcs, classes, objects, arrays, environment, locals, printed,
                            result, trace>>
        ELSE \E statements \in {parse(lexed.tokens, 0, <<>>)} :
                /\ interpret(statements)
                /\ mus' = [run EXCEPT !.statements = statements, !.interpreted = TRUE,
                                      !.had_runtime_error = (result'.exc = "InterpreterError"),
                                      !.exit_code = IF result'.exc = "InterpreterError" THEN 70
                                                    ELSE 0,
                                      !.error = [exc |-> result'.exc, msg |-> result'.msg,
                                                 line |-> 0, column |-> 0]]

\* Mus.run_file on one of the source texts
RunFile ==
    /\ steps = 0
    /\ steps' = MaxSteps
    /\ \E i \in 1..Len(Sources) : run_file(Sources[i])
    /\ UNCHANGED <<heap, again, legacy>>

\* the operands and the operators of the two-line files
\* `var n => any' / `<operand> <operator> <operand>': n holds None
Operands == {<<"0">>, <<"1">>, <<"t", "r", "u", "e">>, <<"f", "a", "l", "s", "e">>, <<"n">>,
             <<"\"", "a", "\"">>}
Operators == {<<"+">>, <<"/">>, <<"%">>, <<"=", "=">>, <<"!", "=">>}

\* Mus.run_file on a file `var n => any' / `<operand> <operator> <operand>'
RunBinary ==
    /\ steps = 0
    /\ steps' = MaxSteps
    /\ \E operator \in Operators, left \in Operands, right \in Operands :
            run_file(<<"v", "a", "r", " ", "n", " ", "=", ">", " ", "a", "n", "y", "\n">>
                     \o left \o <<" ">> \o operator \o <<" ">> \o right)
    /\ UNCHANGED <<heap, again, legacy>>

\* interpret on `var a => array<integer> = [1, 2]' as a host builds it: a
\* VarDeclaration whose type_name is the whole "array<integer>" (or
\* "array<string>"), initialised with an array literal, with 1 or with the
\* array that a holds.  No source text parses to it (Parser.var_declaration
\* takes one IDENTIFIER as the type): it is how a host reaches a MusArray.
\* The declaration may be followed by the statement `a.0' or `a.2', a Get
\* whose name is the text of an index.
RunArrayDeclaration ==
    /\ steps < MaxSteps
    /\ steps' = steps + 1
    /\ \E type_name \in {"array<integer>", "array<string>"},
          initializer \in {Literal(ListV("[1, 2]", 2)), Num(1), Variable("a")},
          index \in {"", "0", "2"} :
            interpret(<< VarDeclaration("a", type_name, <<initializer>>) >>
                      \o IF index = "" THEN <<>> ELSE << Expr(Get(Variable("a"), index)) >>)
    /\ UNCHANGED <<mus, heap, again, legacy>>

\* the class K whose field xs is initialised with the array that a holds,
\* declared after a, and two instances of it: classes[1] of a new interpreter
\*   var a => array<integer> = [1, 2]
\*   class K { var xs => any = a  var v => integer = 1 }
\*   var p => any = K()  var q => any = K()
TwoInstances ==
    << VarDeclaration("a", "array<integer>", <<Literal(ListV("[1, 2]", 2))>>),
       ClassDeclaration("K", "", << VarDeclaration("xs", "any", <<Variable("a")>>),
                                   VarDeclaration("v", "integer", <<Num(1)>>) >>),
       VarDeclaration("p", "any", <<Call(Literal(ClassV(1)), <<>>)>>),
       VarDeclaration("q", "any", <<Call(Literal(ClassV(1)), <<>>)>>) >>

\* the programs of a host, with Literal nodes that hold a class or a native
\* function: after `class A { var v => integer = 1 }' the class is classes[1]
\* of a new interpreter, and funcs[1] is `out'
\*   out(7)
\*   var a => any = A()  out(a)
\*   var a => any = A()  out("a" + a)
\*   <two instances>  q.v  p.v = 3  q.v
\*   <two instances>  q.xs.0  p.xs.0 = 9  q.xs.0
HostPrograms ==
    << << ExpressionStmt(Call(Literal(FunV(1)), <<Num(7)>>)) >>,
       << ClassDeclaration("A", "", <<VarDeclaration("v", "integer", <<Num(1)>>)>>),
          VarDeclaration("a", "any", <<Call(Literal(ClassV(1)), <<>>)>>),
          ExpressionStmt(Call(Literal(FunV(1)), <<Variable("a")>>)) >>,
       << ClassDeclaration("A", "", <<VarDeclaration("v", "integer", <<Num(1)>>)>>),
          VarDeclaration("a", "any", <<Call(Literal(ClassV(1)), <<>>)>>),
          ExpressionStmt(Call(Literal(FunV(1)),
                              <<Binary(Literal(StrV("a")), "PLUS", Variable("a"))>>)) >>,
       TwoInstances \o
       << Expr(Get(Variable("q"), "v")),
          Expr(Set(Variable("p"), "v", Num(3))),
          Expr(Get(Variable("q"), "v")) >>,
       TwoInstances \o
       << Expr(Get(Get(Variable("q"), "xs"), "0")),
          Expr(Set(Get(Variable("p"), "xs"), "0", Num(9))),
          Expr(Get(Get(Variable("q"), "xs"), "0")) >> >>

\* interpret on one of the host's programs in a new interpreter, and the
\* same program once more in a new interpreter of another new process, whose
\* heap is at a place of its own
RunTwice ==
    /\ steps = 0
    /\ steps' = MaxSteps
    /\ \E i \in 1..Len(HostPrograms) :
          /\ interpret(HostPrograms[i])
          /\ \E base \in HeapBases :
               \E run \in {execute_statements(HostPrograms[i], interpreter(base))} :
                  again' = [ran |-> TRUE, printed |-> run.st.printed]
    /\ UNCHANGED <<mus, heap, legacy>>

Next ==
    RunSource \/ RunCallOfValue \/ RunArrayDeclaration \/ RunBinary \/ RunFile \/ RunTwice

Spec == Init /\ [][Next]_vars

(***************************************************************************)
(* The line interpreter that run_mus.py runs (src/mus/interpreter.py,      *)
(* parser.py, executor.py, evaluator.py): the only place where arrays have *)
(* `push'.  A Python list is a sequence of values.                         *)
(***************************************************************************)
\* the value expressions pushed
ValueExpressions == {"3", "\"s\"", "true"}

\* ExpressionEvaluator.evaluate(expr) on a string literal, a number, a boolean
literal_value(expr) ==
    CASE expr = "3" -> IntV(3)
      [] expr = "true" -> BoolV(TRUE)
      [] OTHER -> StrV("s")

\* a call self.evaluator.evaluate(*arguments): evaluate(self, expr) takes one
\* argument, Python raises its own TypeError on any other number
evaluator_evaluate(arguments) ==
    IF Len(arguments) # 1 THEN [exc |-> "builtins.TypeError", val |-> Null]
    ELSE [exc |-> "", val |-> literal_value(arguments[1])]

\* StatementExecutor._type_check_and_convert(value, target_type, line_number):
\* isinstance(value, int) holds of a bool, int("s") raises ValueError
type_check_and_convert(value, target_type) ==
    CASE target_type = "integer" ->
            IF value.k \in {"int", "bool"} THEN [exc |-> "", val |-> value]
            ELSE [exc |-> "TypeError", val |-> Null]
      [] target_type = "string" ->
            [exc |-> "", val |-> IF value.k = "str" THEN value
                                 ELSE IF value.k = "bool" THEN StrV("True")
                                 ELSE StrV(ToString(value.n))]
      [] OTHER -> [exc |-> "TypeError", val |-> Null]

\* var.type[6:-1] of a type array<...>
element_type(type) == IF type = "array<integer>" THEN "integer" ELSE "string"

\* how a line ended, and what it left in the variable
Ran(op, value_expr, exc, value) ==
    [variables |-> IF exc = "" THEN [legacy.variables EXCEPT !["a"].value = value]
                   ELSE legacy.variables,
     last |-> [op |-> op, before |-> legacy.variables["a"].value,
               type |-> legacy.variables["a"].type, value_expr |-> value_expr, exc |-> exc]]

\* StatementExecutor.execute_array_operation(line, line_number) on the line
\* `a.push(<value_expr>)': the variable is looked up, the value expression is
\* evaluated with self.evaluator.evaluate(value_expr, line_number), checked
\* against the element type and appended
execute_array_operation(value_expr, line_number) ==
    LET array == legacy.variables["a"]
        value == evaluator_evaluate(<<value_expr, line_number>>)
        converted == type_check_and_convert(value.val, element_type(array.type))
    IN  IF array.type \notin {"array<integer>", "array<string>"}
        THEN Ran("statement", value_expr, "TypeError", array.value)
        ELSE IF value.exc # "" THEN Ran("statement", value_expr, value.exc, array.value)
        ELSE IF converted.exc # "" THEN Ran("statement", value_expr, converted.exc, array.value)
        ELSE Ran("statement", value_expr, "", Append(array.value, converted.val))

\* ExpressionEvaluator.evaluate on the expression `a.push(<value_expr>)': the
\* environment has no attribute `executor', so the value is appended as it is
evaluate_push(value_expr) ==
    LET var == legacy.variables["a"]
        value == evaluator_evaluate(<<value_expr>>)
    IN  IF var.type \notin {"array<integer>", "array<string>"}
        THEN Ran("expression", value_expr, "RuntimeError", var.value)
        ELSE Ran("expression", value_expr, "", Append(var.value, value.val))

\* the host defines the variable a: interpreter.environment.define_variable
DefineVariable ==
    /\ \E type \in {"array<integer>", "array<string>", "integer"} :
         \E value \in IF type = "integer" THEN {IntV(5)}
                       ELSE IF type = "array<integer>" THEN {<<>>, <<IntV(1), IntV(2)>>}
                       ELSE {<<>>, <<StrV("s")>>} :
            legacy' = [variables |-> Put(legacy.variables, "a", [type |-> type, value |-> value]),
                       last |-> NewInterpreter.last]
    /\ UNCHANGED <<envs, funcs, classes, objects, arrays, environment, locals, printed, result,
                   trace, steps, mus, heap, again>>

Defined == "a" \in DOMAIN legacy.variables

Room ==
    IF legacy.variables["a"].type = "integer" THEN TRUE
    ELSE Len(legacy.variables["a"].value) < MaxLength

\* Interpreter.run on the line `a.push(<value_expr>)': MusParser.parse_block
\* hands it to execute_array_operation
RunPushStatement ==
    /\ Defined /\ Room
    /\ \E value_expr \in ValueExpressions : legacy' = execute_array_operation(value_expr, 1)
    /\ UNCHANGED <<envs, funcs, classes, objects, arrays, environment, locals, printed, result,
                   trace, steps, mus, heap, again>>

\* evaluate on `a.push(<value_expr>)', as parse_block calls it on the
\* argument of a call line such as `f(a.push(3))'
RunPushExpression ==
    /\ Defined /\ Room
    /\ \E value_expr \in ValueExpressions : legacy' = evaluate_push(value_expr)
    /\ UNCHANGED <<envs, funcs, classes, objects, arrays, environment, locals, printed, result,
                   trace, steps, mus, heap, again>>

NextLines == DefineVariable \/ RunPushStatement \/ RunPushExpression

SpecLines == Init /\ [][NextLines]_vars

(***************************************************************************)
(* The claims, over the history of the last interpret call.                *)
(***************************************************************************)
\* the function, bound to instance o, that f.bind(o) makes of method `method'
BoundTo(f, method, o) ==
    /\ funcs[f].name = funcs[method].name
    /\ funcs[f].params = funcs[method].params
    /\ funcs[f].body = funcs[method].body
    /\ funcs[f].closure # 0
    /\ "this" \in DOMAIN envs[funcs[f].closure].variables
    /\ envs[funcs[f].closure].variables["this"].value = ObjV(o)

\* the value the body of the program's function `name' returns on a first
\* argument `first': f, hi return 1, g its argument, m 2, h runs off its end
Returned(name, first) ==
    CASE name \in {"f", "hi"} -> IntV(1)
      [] name = "g" -> first
      [] name = "m" -> IntV(2)
      [] OTHER -> Null

\* C1: a Call whose callee is an identifier that names a function (built-in
\* or declared) or a class resolves the identifier to that function or class
\* and invokes it; it does not fail as "Can only call functions and classes".
C1_CalleeNamesFunctionOrClass ==
    \A i \in DOMAIN trace :
        trace[i].ev = "callee" /\ (trace[i].a # 0 \/ trace[i].b # 0) =>
            /\ trace[i].val = IF trace[i].a # 0 THEN FunV(trace[i].a) ELSE ClassV(trace[i].b)
            /\ result.msg # "Can only call functions and classes"

\* C2: evaluating Variable(name) returns the value of the nearest binding of
\* the scope chain that starts at the current environment (current block,
\* enclosing block or parameter of the running activation; inner shadows outer).
C2_LookupYieldsNearestBinding ==
    \A i \in DOMAIN trace :
        trace[i].ev = "lookup" /\ trace[i].a = 1 => trace[i].val = trace[i].near

\* C3: a reference to a name that no environment of the scope chain binds
\* (`this' outside a method included) raises NameError: no such reference
\* yields a value.
C3_UnboundNameNeverYields ==
    \A i \in DOMAIN trace : trace[i].ev = "lookup" => trace[i].a = 1

\* C4: an assignment `x = v' to a bound name sets the nearest binding of x to
\* v and yields v, with no new binding in the current scope and the shadowed
\* binding unchanged; with no binding of x in the chain it fails with NameError.
C4_AssignmentUpdatesNearestBinding ==
    \A i \in DOMAIN trace :
        trace[i].ev = "assigned" =>
            IF trace[i].a # 0
            THEN /\ trace[i].exc = ""
                 /\ trace[i].val = trace[i].arg
                 /\ trace[i].near = trace[i].arg
                 /\ trace[i].b = 1
            ELSE trace[i].exc = "NameError"

\* C5: a call of a function that is not native creates a fresh environment,
\* binds the parameters and executes the body; only a function that carries
\* a host-side callable is invoked natively.
C5_OnlyNativeFunctionsCalledNatively ==
    /\ \A i \in DOMAIN trace : trace[i].ev = "native" => funcs[trace[i].a].native_fn # ""
    /\ \A i \in DOMAIN trace :
           trace[i].ev = "called" /\ funcs[trace[i].a].native_fn = "" =>
               \E j \in 1..(i - 1) :
                   /\ trace[j].ev = "activate"
                   /\ trace[j].a = trace[i].a
                   /\ envs[trace[j].env].parent =
                          (IF funcs[trace[i].a].closure # 0 THEN funcs[trace[i].a].closure ELSE 1)

\* C6: the call of a function yields the value its body returns (null when
\* the value is omitted or the body runs off its end); the return signal
\* never leaves the call.
C6_CallYieldsReturnedValue ==
    \A i \in DOMAIN trace :
        /\ trace[i].ev = "called"
        /\ funcs[trace[i].a].native_fn = ""
        /\ trace[i].b = Len(funcs[trace[i].a].params)
        => /\ trace[i].exc = ""
           /\ trace[i].val = Returned(trace[i].name, trace[i].near)

\* C7: a call with a number of arguments different from the number of
\* declared parameters raises RuntimeError, and no activation of the body
\* is made for it.
C7_ArityMismatchRaisesRuntimeError ==
    /\ \A i \in DOMAIN trace :
           trace[i].ev = "called" /\ trace[i].b # Len(funcs[trace[i].a].params) =>
               trace[i].exc = "RuntimeError"
    /\ \A i \in DOMAIN trace :
           trace[i].ev = "activate" => trace[i].near.n = Len(funcs[trace[i].a].params)

\* C8: calling a class, written ClassName(args) or new ClassName(args),
\* returns a fresh instance of that class, with init (own or inherited)
\* invoked exactly once, bound to the instance.
C8_ClassCallReturnsInstance ==
    \A i \in DOMAIN trace :
        trace[i].ev = "callee" /\ trace[i].a = 0 /\ trace[i].b # 0 =>
            \E j \in (i + 1)..Len(trace) :
                /\ trace[j].ev = "new"
                /\ trace[j].a = trace[i].b
                /\ trace[j].val.k = "obj"
                /\ objects[trace[j].val.n].class_def = trace[i].b
                /\ trace[j].b # 0 =>
                       Cardinality({k \in i..j : /\ trace[k].ev = "activate"
                                                 /\ trace[k].name = "init"
                                                 /\ trace[k].val = trace[j].val}) = 1

\* C9: instance.name returns the instance's field `name' when it has one;
\* otherwise the method `name' of the class or an ancestor, bound to that
\* instance; otherwise it raises NameError.  A field wins over a method of
\* the same name.
C9_FieldThenMethodThenNameError ==
    \A i \in DOMAIN trace :
        trace[i].ev = "get" =>
            IF trace[i].arg = BoolV(TRUE)
            THEN trace[i].exc = "" /\ trace[i].val = trace[i].near
            ELSE IF trace[i].b # 0
                 THEN /\ trace[i].exc = ""
                      /\ trace[i].val.k = "fun"
                      /\ BoundTo(trace[i].val.n, trace[i].b, trace[i].a)
            ELSE trace[i].exc = "NameError"

\* C9 witness: one program has read a field that a method of the same name
\* stands behind, a method no field hides, and a name that is neither.
C9_AllThreeCasesRead ==
    /\ \E i \in DOMAIN trace :
           trace[i].ev = "get" /\ trace[i].arg = BoolV(TRUE) /\ trace[i].b # 0 /\ trace[i].exc = ""
    /\ \E i \in DOMAIN trace :
           trace[i].ev = "get" /\ trace[i].arg = BoolV(FALSE) /\ trace[i].b # 0 /\ trace[i].exc = ""
    /\ \E i \in DOMAIN trace :
           trace[i].ev = "get" /\ trace[i].arg = BoolV(FALSE) /\ trace[i].b = 0
               /\ trace[i].exc = "NameError"

\* C11: a[e] on an array yields the element at index e when 0 <= e < length,
\* and raises RuntimeError for an index that is negative or >= length.
C11_IndexYieldsElementOrRuntimeError ==
    \A i \in DOMAIN trace :
        trace[i].ev = "index" /\ trace[i].arg.k = "int" =>
            IF trace[i].b = 1
            THEN trace[i].exc = "" /\ trace[i].val = trace[i].near
            ELSE trace[i].exc = "RuntimeError"

\* the value is one of the mismatches of a declared type: a String for
\* integer, an Integer for string or bool, a non-array value for array<T>,
\* an Array of another element type for array<T>
Mismatch(type_name, value, as) ==
    \/ type_name = "integer" /\ value.k = "str"
    \/ type_name \in {"string", "bool"} /\ value.k = "int"
    \/ element_type_of(type_name) # "" /\ value.k \in {"int", "str", "bool", "null"}
    \/ element_type_of(type_name) # "" /\ value.k = "arr"
          /\ as[value.n].element_type # element_type_of(type_name)

\* C13: a VarDecl whose initializer value does not fit the declared type
\* raises TypeError and creates no binding.
C13_MismatchedDeclarationRaisesTypeError ==
    \A i \in DOMAIN trace :
        trace[i].ev = "declared" /\ Mismatch(trace[i].arg.s, trace[i].val, arrays) =>
            trace[i].exc = "TypeError"

C15_PlusSumsConcatenatesOrRaisesTypeError ==
    \A i \in DOMAIN trace :
        trace[i].ev = "binary" /\ trace[i].name = "PLUS" =>
            LET l == trace[i].near
                r == trace[i].arg
            IN  IF l.k \in {"int", "float"} /\ r.k \in {"int", "float"}
                THEN trace[i].exc = "" /\ trace[i].val = num_add(l, r)
                ELSE IF l.k = "str" \/ r.k = "str"
                THEN trace[i].exc = "" /\ trace[i].val.k = "str"
                ELSE trace[i].exc = "TypeError"

\* the natural equality of two values of the same kind
SameValue(l, r) == IF l.k = "float" THEN num_equal(l, r) ELSE l = r

\* C16: `==' is true for null and null, false when exactly one operand is
\* null, false for operands of different kinds (Integer 1 and Boolean true),
\* the natural equality for operands of the same kind; `!=' is its negation.
C16_EqualityDistinguishesKinds ==
    \A i \in DOMAIN trace :
        trace[i].ev = "binary" /\ trace[i].name \in {"EQUALS", "NOT_EQUALS"}
            /\ trace[i].near.k \in {"null", "int", "bool", "str", "float"}
            /\ trace[i].arg.k \in {"null", "int", "bool", "str", "float"} =>
            LET l == trace[i].near
                r == trace[i].arg
                equal == IF l.k # r.k THEN FALSE ELSE SameValue(l, r)
            IN  /\ trace[i].exc = ""
                /\ trace[i].val = BoolV(IF trace[i].name = "EQUALS" THEN equal ELSE ~equal)

\* the file run starts with `for (x in' or `for (var x in' (IN) or with
\* `for (x =' or `for (var x =' (ASSIGN)
ForHeader(follow) ==
    /\ Len(mus.tokens) >= 5
    /\ mus.tokens[1].type = "FOR" /\ mus.tokens[2].type = "LEFT_PAREN"
    /\ \/ mus.tokens[3].type = "IDENTIFIER" /\ mus.tokens[4].type = follow
       \/ /\ mus.tokens[3].type = "VAR" /\ mus.tokens[4].type = "IDENTIFIER"
          /\ mus.tokens[5].type = follow

\* C12: the parser accepts both `for' forms: with `in' after the loop
\* variable the statement parses as a for-in loop, with `=' as the C-style
\* loop (a block of the initializer and a while loop); neither is rejected
\* with a parse error.
C12_BothForFormsParse ==
    /\ ForHeader("IN") =>
            /\ errors_caught(mus.statements) = <<>>
            /\ Len(mus.statements) = 1 /\ mus.statements[1].t = "For"
    /\ ForHeader("ASSIGN") =>
            /\ errors_caught(mus.statements) = <<>>
            /\ Len(mus.statements) = 1 /\ mus.statements[1].t = "Block"
            /\ mus.statements[1].kids[1].t = "VarDeclaration"
            /\ mus.statements[1].kids[2].t = "While"

\* the token types of the two-character operators
TwoCharacterOperators ==
    [text \in {"==", "!=", "<=", ">=", "=>", "&&", "||"} |->
        CASE text = "==" -> "EQUALS"
          [] text = "!=" -> "NOT_EQUALS"
          [] text = "<=" -> "LESS_EQUAL"
          [] text = ">=" -> "GREATER_EQUAL"
          [] text = "=>" -> "ARROW"
          [] text = "&&" -> "AND"
          [] OTHER -> "OR"]

\* the position of the first character of the source that is no letter,
\* digit, underscore or space, when it is on the first line and a character
\* follows it; 0 otherwise
FirstOperator ==
    LET marks == {p \in 1..(Len(mus.source) - 1) :
                     ~isalnum(mus.source[p]) /\ mus.source[p] \notin {" ", "_"}}
    IN  IF marks = {} THEN 0
        ELSE LET p == CHOOSE q \in marks : \A r \in marks : q <= r
             IN  IF mus.source[p] = "\n" THEN 0 ELSE p

\* the tokens of the first line that start at column p or, with `after',
\* behind it
TokensAt(p, after) ==
    {i \in DOMAIN mus.tokens :
        /\ mus.tokens[i].line = 1 /\ mus.tokens[i].type # "EOF"
        /\ IF after THEN mus.tokens[i].column >= p ELSE mus.tokens[i].column = p}

\* C17: each two-character operator (== != <= >= => && ||) yields exactly
\* one token of its kind, never two one-character tokens and never a lexer
\* error; `--' and `//' start a comment that runs to the end of the line and
\* yields no token.
C17_TwoCharacterOperatorsAreOneToken ==
    FirstOperator # 0 =>
        LET p == FirstOperator
            text == mus.source[p] \o mus.source[p + 1]
        IN  /\ text \in DOMAIN TwoCharacterOperators =>
                /\ mus.error.exc # "LexerError"
                /\ \E i \in DOMAIN mus.tokens :
                       /\ TokensAt(p, FALSE) = {i}
                       /\ mus.tokens[i].lexeme = text
                       /\ mus.tokens[i].type = TwoCharacterOperators[text]
                /\ TokensAt(p + 1, FALSE) = {}
            /\ text \in {"--", "//"} =>
                /\ mus.error.exc # "LexerError"
                /\ TokensAt(p, TRUE) = {}

\* C18: an unterminated string literal raises a LexerError whose line is the
\* line of the opening quote, also when the text runs over several lines.
C18_UnterminatedStringReportsOpeningLine ==
    \A p \in DOMAIN mus.source :
        /\ mus.source[p] = "\""
        /\ \A q \in DOMAIN mus.source : mus.source[q] = "\"" => q = p
        => /\ mus.error.exc = "LexerError"
           /\ mus.error.msg = "Unterminated string"
           /\ mus.error.line = 1 + Cardinality({q \in 1..p : mus.source[q] = "\n"})

\* C19: parsing a program with an assignment whose left-hand side is neither
\* a Variable nor a Get (`1 = 2') results in a ParserError being reported
\* for that program.
C19_InvalidAssignmentTargetIsReported ==
    (\E i \in DOMAIN errors_caught(mus.statements) :
        errors_caught(mus.statements)[i] = "Invalid assignment target.")
    => mus.had_error /\ mus.error.exc = "ParserError"

\* C20: when lexing or parsing of a source reports a syntax error, run stops
\* before interpretation (no statement is evaluated) and running the file
\* ends with exit code 65, for parse errors as well as lexer errors.
C20_SyntaxErrorStopsRunWithExit65 ==
    mus.error.exc = "LexerError" \/ errors_caught(mus.statements) # <<>>
    => ~mus.interpreted /\ trace = <<>> /\ mus.exit_code = 65

\* C21: two runs of the same program, each in a new interpreter, print the
\* same sequence of outputs, the string form of an instance included
C21_TwoRunsPrintTheSame ==
    again.ran => again.printed = printed

\* the element-type check accepts the value of the pushed expression
Accepted ==
    type_check_and_convert(literal_value(legacy.last.value_expr),
                           element_type(legacy.last.type)).exc = ""

\* C22: a push of a value that the element-type check accepts, on an array,
\* completes and leaves the array one longer, the earlier elements in place
C22_PushAddsOneElement ==
    legacy.last.op # "" /\ legacy.last.type # "integer" /\ Accepted =>
        /\ legacy.last.exc = ""
        /\ Len(legacy.variables["a"].value) = Len(legacy.last.before) + 1
        /\ \A i \in 1..Len(legacy.last.before) :
              legacy.variables["a"].value[i] = legacy.last.before[i]

\* C23: a Block runs in a new child of the current environment, its
\* statements in order; however it ends (normally, by a return signal, by an
\* error) the current environment is again the one before it, and no lookup
\* made after it reads the block's environment
C23_BlockRestoresEnvironment ==
    /\ environment = 1
    /\ \A i \in DOMAIN trace :
          trace[i].ev = "block" =>
              /\ trace[i].b = trace[i].a
              /\ envs[trace[i].env].parent = trace[i].a
              /\ \A j \in DOMAIN trace :
                    /\ trace[j].ev = "declared" /\ trace[j].env = trace[i].env => j < i
                    /\ j > i /\ trace[j].ev = "lookup" =>
                          trace[j].b # trace[i].env /\ trace[j].env # trace[i].env

\* C23 happens: a block that declared y ended normally, y was looked up
\* after it, and a later block was left by a return signal
C23_BlocksLeftOnTwoPaths ==
    \E i, j, k \in DOMAIN trace :
        /\ i < j /\ j < k
        /\ trace[i].ev = "block" /\ trace[i].exc = ""
        /\ \E d \in 1..i : trace[d].ev = "declared" /\ trace[d].name = "y"
                              /\ trace[d].env = trace[i].env
        /\ trace[j].ev = "lookup" /\ trace[j].name = "y"
        /\ trace[k].ev = "block" /\ trace[k].exc = "ReturnValue"

\* C24: when the body of a called function (or of init, in a class call)
\* starts, the parent of the activation environment is the function's closure
\* and the activation binds each declared parameter, and nothing else: as
\* many bindings as parameters
C24_ActivationBindsEveryParameter ==
    \A i \in DOMAIN trace :
        trace[i].ev = "activate" =>
            /\ funcs[trace[i].a].closure # 0
            /\ envs[trace[i].env].parent = funcs[trace[i].a].closure
            /\ trace[i].b = Len(funcs[trace[i].a].params)

\* the names the program of the step has declared or assigned
Written(events) ==
    {events[i].name : i \in {j \in DOMAIN events : events[j].ev \in {"declared", "assigned"}}}

\* the functions the classes own
Methods ==
    UNION {{classes[c].methods[m] : m \in DOMAIN classes[c].methods} : c \in DOMAIN classes}

\* the method read from an instance is a function of its own, not the one
\* the class owns, over an environment of its own whose parent is the
\* method's closure and which binds `this' to the instance, and `super' to
\* the superclass when there is one, and nothing else
BoundAfresh(f, method, o) ==
    LET e == funcs[f].closure
        parent == classes[objects[o].class_def].parent
    IN  /\ f # method
        /\ f \notin Methods
        /\ BoundTo(f, method, o)
        /\ e # funcs[method].closure
        /\ \A g \in DOMAIN funcs : g # f => funcs[g].closure # e
        /\ envs[e].parent = funcs[method].closure
        /\ DOMAIN envs[e].variables = IF parent # 0 THEN {"this", "super"} ELSE {"this"}
        /\ parent # 0 => envs[e].variables["super"].value = ClassV(parent)

\* no step changes a function that exists, and the bindings of a method's
\* closure change only where the program of the step declares or assigns
MethodsKept ==
    /\ \A f \in DOMAIN funcs : funcs'[f] = funcs[f]
    /\ \A f \in Methods :
          LET e == funcs[f].closure
          IN  \A name \in DOMAIN envs[e].variables :
                  name \notin Written(trace') =>
                      /\ name \in DOMAIN envs'[e].variables
                      /\ envs'[e].variables[name] = envs[e].variables[name]

\* C25: reading a method from an instance yields a fresh function, bound to
\* the instance in a new environment under the method's closure (this, and
\* super exactly when the class has a superclass); the class-owned function
\* and the bindings of its closure stay as they are through bindings and
\* calls.  init is read from the field that create_instance bound it into.
C25_BindLeavesMethodUntouched ==
    /\ [](\A i \in DOMAIN trace :
             /\ trace[i].ev = "get" /\ trace[i].b # 0
             /\ \/ trace[i].arg = BoolV(FALSE)
                \/ trace[i].name = "init" /\ trace[i].val.k = "fun"
             => /\ trace[i].val.k = "fun"
                /\ BoundAfresh(trace[i].val.n, trace[i].b, trace[i].a))
    /\ [][MethodsKept]_vars

\* C25 happens: methods have been read from an instance of a class that has
\* a superclass, one of them inherited, and the instance was made by a call
\* that bound and ran init
C25_MethodsReadFromSubclassInstance ==
    \E i, j \in DOMAIN trace :
        /\ i # j
        /\ trace[i].ev = "get" /\ trace[i].arg = BoolV(FALSE) /\ trace[i].b # 0
        /\ trace[j].ev = "get" /\ trace[j].arg = BoolV(FALSE) /\ trace[j].b # 0
        /\ trace[i].b # trace[j].b
        /\ classes[objects[trace[i].a].class_def].parent # 0
        /\ "init" \in DOMAIN objects[trace[i].a].fields

\* the fields that class c and its ancestors declare
RECURSIVE DeclaredFields(_)
DeclaredFields(c) ==
    IF c = 0 THEN {}
    ELSE DOMAIN classes[c].fields \cup DeclaredFields(classes[c].parent)

\* C26: the names in the field mapping of an instance that a class call made
\* are the fields its class and the ancestors of its class declare, no more
\* (no method name) and no fewer (every inherited field)
C26_FieldsAreTheDeclaredOnes ==
    \A o \in DOMAIN objects :
        objects[o].environment # 0 =>
            DOMAIN objects[o].fields = DeclaredFields(objects[o].class_def)

\* the recoveries of the parse, in the order of the statements: the cursor
\* when the ParserError was caught and the cursor synchronize left
RECURSIVE recoveries(_)
recoveries(nodes) ==
    IF nodes = <<>> THEN <<>>
    ELSE (IF Head(nodes).t = "Literal" /\ Head(nodes).name # "" THEN <<Head(nodes).params>>
          ELSE recoveries(Head(nodes).kids)) \o recoveries(Tail(nodes))

\* where recovery stops: at the end of input, after a `}', before a keyword
\* that starts a declaration or a statement
StopsAt(ts, cur) ==
    \/ parser_is_at_end(ts, cur)
    \/ previous(ts, cur).type = "RIGHT_BRACE"
    \/ parser_peek(ts, cur).type \in {"CLASS", "FUN", "VAR", "IF", "WHILE", "FOR", "RETURN"}

IsErrorStmt(node) ==
    node.t = "ExpressionStmt" /\ node.kids[1].t = "Literal" /\ node.kids[1].name # ""

C28_EveryDeclarationConsumesAToken ==
    mus.tokens # <<>> /\ mus.tokens[Len(mus.tokens)].type = "EOF" =>
        /\ \A cur \in 0..(Len(mus.tokens) - 1) :
              ~parser_is_at_end(mus.tokens, cur) =>
                  /\ declaration(mus.tokens, cur).cur > cur
                  /\ declaration(mus.tokens, cur).cur < Len(mus.tokens)
                  /\ synchronize(mus.tokens, cur) > cur
        /\ synchronize(mus.tokens, Len(mus.tokens) - 1) = Len(mus.tokens) - 1
        /\ mus.interpreted
        /\ Len(mus.statements) < Len(mus.tokens)

\* C28 happens: a parse has ended on a program with a block in a function
\* body, a class body that is left by a parse error, the recovery from it
\* and a statement after it
C28_ParseEndedAfterNestedLoops ==
    /\ mus.interpreted
    /\ Len(mus.statements) = 3
    /\ mus.statements[1].t = "FunctionDeclaration"
    /\ mus.statements[1].kids # <<>> /\ mus.statements[1].kids[1].t = "Block"
    /\ IsErrorStmt(mus.statements[2])
    /\ mus.statements[2].kids[1].name = "Expected field or method declaration."
    /\ ~IsErrorStmt(mus.statements[3])

\* C29: whatever ends an interpret call early leaves it as an
\* InterpreterError: a host exception raised while evaluating (IndexError of
\* an array index, NameError of a field, RuntimeError of a native function's
\* arguments), a return signal outside any function call
C29_OnlyInterpreterErrorEscapes ==
    /\ result.exc \in {"", "InterpreterError"}
    /\ result.exc = "" <=> result.cause = ""

\* C29 happens: a return signal of a block outside any function call has
\* ended an interpret call
C29_ReturnSignalEscaped ==
    /\ result.cause = "ReturnValue"
    /\ \E i \in DOMAIN trace : trace[i].ev = "block" /\ trace[i].exc = "ReturnValue"
    /\ \A i \in DOMAIN trace : trace[i].ev # "activate"

\* the value of the expression statement that the read at trace[i] is of
Observed(i) ==
    trace[CHOOSE k \in i..Len(trace) :
              trace[k].ev = "expr" /\ \A m \in i..(k - 1) : trace[m].ev # "expr"].val

\* trace[i] reads a field of an instance in an expression statement
Reads(i) ==
    trace[i].ev = "get" /\ trace[i].exc = "" /\ \E k \in i..Len(trace) : trace[k].ev = "expr"

\* the instance that the Set at trace[w] writes: the one whose field it sets,
\* or the one it has read the array from
Writer(w) ==
    IF trace[w].near.k = "obj" THEN trace[w].near.n
    ELSE IF w > 1 /\ trace[w - 1].ev = "get" THEN trace[w - 1].a
    ELSE 0

\* C30: a write to a field of one instance, or in place to an element of an
\* array in a field that the class's initializer gave it, leaves what is
\* read through the fields of another instance of the class as it was
C30_InstancesAreIndependent ==
    \A i, w, j \in DOMAIN trace :
        /\ i < w /\ w < j
        /\ Reads(i) /\ Reads(j)
        /\ trace[i].a = trace[j].a /\ trace[i].name = trace[j].name
        /\ trace[w].ev = "set"
        /\ Writer(w) \notin {0, trace[i].a}
        /\ objects[Writer(w)].class_def = objects[trace[i].a].class_def
        => Observed(i) = Observed(j)

\* C10: super.method, evaluated in a method of a class with a superclass,
\* yields the method of the superclass's method table bound to the current
\* `this'.
C10_SuperYieldsSuperclassMethod ==
    \A i \in DOMAIN trace :
        trace[i].ev = "super" /\ trace[i].b # 0 /\ trace[i].a # 0 =>
            /\ trace[i].exc = ""
            /\ trace[i].val.k = "fun"
            /\ BoundTo(trace[i].val.n, trace[i].a, trace[i].near.n)


====
